---- MODULE Spec2Model ----
(***************************************************************************)
(* Model of the NFe query client of src-tauri/src/nfe.rs (Windows build):  *)
(* query_nfe_impl and the functions it calls.                              *)
(*                                                                         *)
(* Text is a sequence of characters.  An ASCII character is a one-letter   *)
(* string; a non-ASCII character is written by its code point ("U+00E9")   *)
(* and occupies Utf8Width(c) bytes.  An offset found by a search counts    *)
(* characters from 0 and names the place the code's byte offset names; an  *)
(* offset the code writes as a number (44, 200, 500) counts bytes.  None   *)
(* (-1) stands for Option::None of a search.                               *)
(***************************************************************************)
EXTENDS Integers, Sequences, FiniteSets, TLC

\* ------------------------------------------------------------------ text

None == -1

Digits == {"0", "1", "2", "3", "4", "5", "6", "7", "8", "9"}

DigitChars == <<"0", "1", "2", "3", "4", "5", "6", "7", "8", "9">>

WideChars == {"U+00E9", "U+0663", "U+20AC"}

\* char::len_utf8
Utf8Width(c) ==
  CASE c = "U+00E9" -> 2
    [] c = "U+0663" -> 2
    [] c = "U+20AC" -> 3
    [] OTHER -> 1

\* char::is_ascii_digit
is_ascii_digit(c) == c \in Digits

\* char::is_whitespace, on the characters of the model
is_whitespace(c) == c \in {" ", "\n", "\t", "\r"}

\* The number of bytes of the first k characters of s
ByteOffset(s, k) ==
  k + Cardinality({i \in 1..k : Utf8Width(s[i]) >= 2})
    + Cardinality({i \in 1..k : Utf8Width(s[i]) >= 3})

\* str::len: the length in bytes
ByteLen(s) == ByteOffset(s, Len(s))

IsAscii(s) == \A i \in 1..Len(s) : s[i] \notin WideChars

\* str::is_char_boundary
is_char_boundary(s, b) ==
  IF IsAscii(s) THEN b <= Len(s)
  ELSE \E k \in 0..Len(s) : ByteOffset(s, k) = b

\* The number of characters in the first b bytes of s (b a character boundary)
CharsBefore(s, b) ==
  IF IsAscii(s) THEN b ELSE CHOOSE k \in 0..Len(s) : ByteOffset(s, k) = b

\* s[a..b] for byte offsets a and b that are character boundaries of s
ByteSlice(s, a, b) == SubSeq(s, CharsBefore(s, a) + 1, CharsBefore(s, b))

\* s[a..b] and s[a..] for offsets found by a search
Slice(s, a, b) == SubSeq(s, a + 1, b)

SliceFrom(s, a) == SubSeq(s, a + 1, Len(s))

\* pat occurs in s at offset i
MatchAt(s, pat, i) ==
  /\ i + Len(pat) <= Len(s)
  /\ \A k \in 1..Len(pat) : s[i + k] = pat[k]

\* The least offset from `from` on at which pat occurs in s, or None
FindAt(s, pat, from) ==
  LET hits == {i \in from..(Len(s) - Len(pat)) : MatchAt(s, pat, i)}
  IN  IF hits = {} THEN None ELSE CHOOSE i \in hits : \A j \in hits : i <= j

\* str::find: the offset of the first occurrence of pat in s, or None
Find(s, pat) == FindAt(s, pat, 0)

\* s[from..].find(pat): the offset is counted from `from`
FindFrom(s, from, pat) ==
  LET i == FindAt(s, pat, from) IN IF i = None THEN None ELSE i - from

\* str::contains
Contains(s, pat) == Find(s, pat) # None

\* str::trim
Trim(s) ==
  LET keep == {i \in 1..Len(s) : ~is_whitespace(s[i])}
  IN  IF keep = {} THEN <<>>
      ELSE SubSeq(s, CHOOSE i \in keep : \A j \in keep : i <= j,
                     CHOOSE i \in keep : \A j \in keep : j <= i)

\* The value of a digit character
DigitVal(c) == CHOOSE v \in 0..9 : DigitChars[v + 1] = c

\* str::parse::<u32>: an optional '+' then at least one ASCII digit; None otherwise
\* (the texts of the model are far below u32::MAX)
ParseU32(s) ==
  LET d == IF Len(s) > 0 /\ s[1] = "+" THEN Tail(s) ELSE s
      val[n \in 0..Len(d)] == IF n = 0 THEN 0 ELSE 10 * val[n - 1] + DigitVal(d[n])
  IN  IF Len(d) = 0 \/ \E i \in 1..Len(d) : ~is_ascii_digit(d[i]) THEN None
      ELSE val[Len(d)]

\* u32 Display: the decimal digits of n
RECURSIVE U32ToString(_)
U32ToString(n) ==
  IF n < 10 THEN <<DigitChars[n + 1]>>
  ELSE U32ToString(n \div 10) \o <<DigitChars[(n % 10) + 1]>>

\* Concatenation of a sequence of texts
RECURSIVE Concat(_)
Concat(parts) == IF parts = <<>> THEN <<>> ELSE Head(parts) \o Concat(Tail(parts))

\* ------------------------------------------------ results and messages

\* Result::Ok, Result::Err (a message and the values formatted into it) and a
\* panic of the task
Ok(v) == [kind |-> "ok", val |-> v]

Err(msg, detail) == [kind |-> "err", err |-> msg, detail |-> detail]

Panic == [kind |-> "panic"]

IsOk(r) == r.kind = "ok"

IsErr(r) == r.kind = "err"

\* nfe.rs:68
ErrAccessKey == "Chave de acesso deve conter exatamente 44 digitos numericos"

\* nfe.rs:81
ErrCnpj ==
  "Nao foi possivel extrair o CNPJ do certificado selecionado. Verifique se e um e-CNPJ (A1)."

\* nfe.rs:74
ErrUfCode == "Codigo UF invalido na chave de acesso"

\* ------------------------------------------------------ key validation

AccessKeyLen == 44

\* nfe.rs:72-74
UfCode(uf_code) == IF uf_code = None THEN Err(ErrUfCode, <<>>) ELSE Ok(uf_code)

\* A faulty variant: any 44 bytes are accepted.
ValidateAccessKey_LengthOnly(access_key) ==
  IF ByteLen(access_key) # AccessKeyLen THEN Err(ErrAccessKey, <<>>)
  ELSE Ok(0)

\* nfe.rs:66-74: the key check and the UF code of query_nfe_impl
ValidateAccessKey(access_key) ==
  IF \/ ByteLen(access_key) # AccessKeyLen
     \/ ~(\A i \in 1..Len(access_key) : is_ascii_digit(access_key[i]))
  THEN Err(ErrAccessKey, <<>>)
  ELSE UfCode(ParseU32(ByteSlice(access_key, 0, 2)))

\* ------------------------------------------------------ response parsing

NoneStr == [some |-> FALSE]

Some(v) == [some |-> TRUE, val |-> v]

\* Option::unwrap_or_default
unwrap_or_default(o) == IF o.some THEN o.val ELSE <<>>

\* nfe.rs:859-860: the content ends where the closing tag is found
TagContentTo(xml, tag_end, e) ==
  IF e = None THEN NoneStr ELSE Some(Slice(xml, tag_end, tag_end + e))

\* nfe.rs:857-859: start is where the opening was found
TagContentAt(xml, close, start, gt) ==
  IF start = None \/ gt = None THEN NoneStr
  ELSE TagContentTo(xml, gt + start + 1, FindFrom(xml, gt + start + 1, close))

TagContentFrom(xml, close, start) ==
  TagContentAt(xml, close, start, IF start = None THEN None ELSE FindFrom(xml, start, <<">">>))

\* nfe.rs:854-861
extract_tag_content(xml, tag) ==
  TagContentFrom(xml, <<"<", "/">> \o tag \o <<">">>, Find(xml, <<"<">> \o tag))

\* nfe.rs:866-868
BlockAt(xml, close, start, e) ==
  IF start = None \/ e = None THEN NoneStr
  ELSE Some(Slice(xml, start, e + start + Len(close)))

BlockFrom(xml, close, start) ==
  BlockAt(xml, close, start, IF start = None THEN None ELSE FindFrom(xml, start, close))

\* nfe.rs:863-869
extract_block(xml, tag) ==
  BlockFrom(xml, <<"<", "/">> \o tag \o <<">">>, Find(xml, <<"<">> \o tag))

TagSectionMax == 200

\* nfe.rs:880-889: the schema attribute of one <docZip ...> opening
SchemaAt(tag_section, s, schema_end) ==
  IF schema_end = None THEN <<>> ELSE Slice(tag_section, s, s + schema_end)

SchemaFrom(tag_section, schema_start) ==
  IF schema_start = None THEN <<>>
  ELSE SchemaAt(tag_section, schema_start + 8,
                FindFrom(tag_section, schema_start + 8, <<"\"">>))

DocZipSchema(tag_section) == SchemaFrom(tag_section, Find(tag_section, <<"s", "c", "h", "e", "m", "a", "=", "\"">>))

\* nfe.rs:871-906.  The result is [panic |-> TRUE] when the slice of nfe.rs:879 is
\* taken out of range or off a character boundary, else the list of
\* <<schema, content>>.
RECURSIVE DocZipLoop(_, _, _)

\* nfe.rs:892-902
DocZipPush(xml, abs_start, schema, content_start, close, results) ==
  IF close # None
  THEN DocZipLoop(xml, content_start + close + 9,
                  Append(results,
                         <<schema, Trim(Slice(xml, content_start, content_start + close))>>))
  ELSE DocZipLoop(xml, abs_start + 7, results)

\* nfe.rs:879: rest is xml[abs_start..], gt the offset of its first '>'
DocZipTag(xml, abs_start, rest, gt, n, results) ==
  IF ~is_char_boundary(rest, n) THEN [panic |-> TRUE]
  ELSE DocZipPush(xml, abs_start, DocZipSchema(ByteSlice(rest, 0, n)), abs_start + gt + 1,
                  IF gt = None THEN None
                  ELSE FindFrom(xml, abs_start + gt + 1, <<"<", "/", "d", "o", "c", "Z", "i", "p", ">">>),
                  results)

\* find('>').unwrap_or(200).min(200), in bytes
TagSectionLen(rest, gt) ==
  IF gt = None THEN TagSectionMax
  ELSE IF ByteOffset(rest, gt) > TagSectionMax THEN TagSectionMax
  ELSE ByteOffset(rest, gt)

DocZipOpen(xml, abs_start, rest, gt, results) ==
  DocZipTag(xml, abs_start, rest, gt, TagSectionLen(rest, gt), results)

DocZipFrom(xml, search_from, start, results) ==
  IF start = None THEN [panic |-> FALSE, val |-> results]
  ELSE DocZipOpen(xml, search_from + start, SliceFrom(xml, search_from + start),
                  FindFrom(xml, search_from + start, <<">">>), results)

DocZipLoop(xml, search_from, results) ==
  DocZipFrom(xml, search_from, FindFrom(xml, search_from, <<"<", "d", "o", "c", "Z", "i", "p">>), results)

extract_all_doc_zips(xml) == DocZipLoop(xml, 0, <<>>)


\* --------------------------------------------- base64 and decompression

Base64Alphabet ==
  {"A", "B", "C", "D", "E", "F", "G", "H", "I", "J", "K", "L", "M",
   "N", "O", "P", "Q", "R", "S", "T", "U", "V", "W", "X", "Y", "Z",
   "a", "b", "c", "d", "e", "f", "g", "h", "i", "j", "k", "l", "m",
   "n", "o", "p", "q", "r", "s", "t", "u", "v", "w", "x", "y", "z",
   "0", "1", "2", "3", "4", "5", "6", "7", "8", "9", "+", "/"}

\* What the STANDARD engine accepts: groups of four symbols, '=' padding only at the
\* end of the last group.
Base64Valid(s) ==
  /\ Len(s) % 4 = 0
  /\ \A i \in 1..Len(s) :
        \/ s[i] \in Base64Alphabet
        \/ /\ s[i] = "="
           /\ i >= Len(s) - 1
           /\ \A j \in i..Len(s) : s[j] = "="

\* A decoder of flate2 on some bytes either yields text or fails.
Decoded(text) == [ok |-> TRUE, text |-> text]

DecodeFails == [ok |-> FALSE]

\* Bytes are known by what each of the three decoders makes of them.
Blob(gz, deflate, zlib) == [gzip |-> gz, deflate |-> deflate, zlib |-> zlib]

GarbageBlob == Blob(DecodeFails, DecodeFails, DecodeFails)


\* Document XML carried by the payloads of the model
DocFull ==
  <<"<", "n", "f", "e", "P", "r", "o", "c", ">", "<", "N", "F", "e", ">", "<", "i", "n", "f", "N", "F", "e", ">", "<", "i", "d", "e", ">", "<", "n", "N", "F", ">", "7", "<", "/", "n", "N", "F", ">", "<", "s", "e", "r", "i", "e", ">", "1", "<", "/", "s", "e", "r", "i", "e", ">", "<", "d", "h", "E", "m", "i", ">", "2", "0", "2", "4", "-", "0", "1", "-", "0", "2", "T", "1", "0", "<", "/", "d", "h", "E", "m", "i", ">", "<", "/", "i", "d", "e", ">">>
  \o <<"<", "e", "m", "i", "t", ">", "<", "C", "N", "P", "J", ">", "1", "2", "3", "4", "5", "6", "7", "8", "0", "0", "0", "1", "9", "0", "<", "/", "C", "N", "P", "J", ">", "<", "x", "N", "o", "m", "e", ">", "A", "C", "M", "E", "<", "/", "x", "N", "o", "m", "e", ">", "<", "I", "E", ">", "1", "1", "<", "/", "I", "E", ">", "<", "/", "e", "m", "i", "t", ">">>
  \o <<"<", "d", "e", "s", "t", ">", "<", "C", "P", "F", ">", "1", "2", "3", "4", "5", "6", "7", "8", "9", "0", "1", "<", "/", "C", "P", "F", ">", "<", "x", "N", "o", "m", "e", ">", "B", "O", "B", "<", "/", "x", "N", "o", "m", "e", ">", "<", "/", "d", "e", "s", "t", ">">>
  \o <<"<", "d", "e", "t", " ", "n", "I", "t", "e", "m", "=", "\"", "1", "\"", ">", "<", "p", "r", "o", "d", ">", "<", "c", "P", "r", "o", "d", ">", "A", "1", "<", "/", "c", "P", "r", "o", "d", ">", "<", "x", "P", "r", "o", "d", ">", "W", "I", "D", "G", "E", "T", "<", "/", "x", "P", "r", "o", "d", ">", "<", "v", "P", "r", "o", "d", ">", "1", "0", "0", ".", "0", "0", "<", "/", "v", "P", "r", "o", "d", ">", "<", "/", "p", "r", "o", "d", ">", "<", "/", "d", "e", "t", ">">>
  \o <<"<", "t", "o", "t", "a", "l", ">", "<", "I", "C", "M", "S", "T", "o", "t", ">", "<", "v", "B", "C", ">", "0", ".", "0", "0", "<", "/", "v", "B", "C", ">", "<", "v", "P", "r", "o", "d", ">", "1", "0", "0", ".", "0", "0", "<", "/", "v", "P", "r", "o", "d", ">", "<", "v", "N", "F", ">", "1", "0", "0", ".", "0", "0", "<", "/", "v", "N", "F", ">", "<", "/", "I", "C", "M", "S", "T", "o", "t", ">", "<", "/", "t", "o", "t", "a", "l", ">">>
  \o <<"<", "/", "i", "n", "f", "N", "F", "e", ">", "<", "/", "N", "F", "e", ">", "<", "p", "r", "o", "t", "N", "F", "e", ">", "<", "i", "n", "f", "P", "r", "o", "t", ">", "<", "n", "P", "r", "o", "t", ">", "1", "3", "5", "<", "/", "n", "P", "r", "o", "t", ">", "<", "d", "h", "R", "e", "c", "b", "t", "o", ">", "2", "0", "2", "4", "-", "0", "1", "-", "0", "2", "<", "/", "d", "h", "R", "e", "c", "b", "t", "o", ">", "<", "/", "i", "n", "f", "P", "r", "o", "t", ">", "<", "/", "p", "r", "o", "t", "N", "F", "e", ">", "<", "/", "n", "f", "e", "P", "r", "o", "c", ">">>

DocSummary == <<"<", "r", "e", "s", "N", "F", "e", ">", "<", "x", "N", "o", "m", "e", ">", "A", "C", "M", "E", "<", "/", "x", "N", "o", "m", "e", ">", "<", "v", "N", "F", ">", "5", ".", "0", "0", "<", "/", "v", "N", "F", ">", "<", "/", "r", "e", "s", "N", "F", "e", ">">>

\* Documents in all shapes: the header, each of the optional blocks present or absent,
\* and up to MaxItems line items
MaxItems == 2

DocIde == <<"<", "i", "d", "e", ">", "<", "n", "N", "F", ">", "7", "<", "/", "n", "N", "F", ">", "<", "s", "e", "r", "i", "e", ">", "1", "<", "/", "s", "e", "r", "i", "e", ">", "<", "d", "h", "E", "m", "i", ">", "2", "0", "2", "4", "-", "0", "1", "-", "0", "2", "T", "1", "0", "<", "/", "d", "h", "E", "m", "i", ">", "<", "/", "i", "d", "e", ">">>

DocEmit == <<"<", "e", "m", "i", "t", ">", "<", "C", "N", "P", "J", ">", "1", "2", "3", "4", "5", "6", "7", "8", "0", "0", "0", "1", "9", "0", "<", "/", "C", "N", "P", "J", ">", "<", "x", "N", "o", "m", "e", ">", "A", "C", "M", "E", "<", "/", "x", "N", "o", "m", "e", ">", "<", "I", "E", ">", "1", "1", "<", "/", "I", "E", ">", "<", "/", "e", "m", "i", "t", ">">>

DocDest == <<"<", "d", "e", "s", "t", ">", "<", "C", "P", "F", ">", "1", "2", "3", "4", "5", "6", "7", "8", "9", "0", "1", "<", "/", "C", "P", "F", ">", "<", "x", "N", "o", "m", "e", ">", "B", "O", "B", "<", "/", "x", "N", "o", "m", "e", ">", "<", "/", "d", "e", "s", "t", ">">>

DocDet(k) ==
  Concat(<<<<"<", "d", "e", "t", " ", "n", "I", "t", "e", "m", "=", "\"">>, U32ToString(k), <<"\"", ">", "<", "p", "r", "o", "d", ">", "<", "x", "P", "r", "o", "d", ">", "I", "T", "E", "M">>, U32ToString(k),
           <<"<", "/", "x", "P", "r", "o", "d", ">", "<", "v", "P", "r", "o", "d", ">">>, U32ToString(k), <<".", "5", "0", "<", "/", "v", "P", "r", "o", "d", ">", "<", "/", "p", "r", "o", "d", ">", "<", "/", "d", "e", "t", ">">>>>)

DocTotal == <<"<", "t", "o", "t", "a", "l", ">", "<", "I", "C", "M", "S", "T", "o", "t", ">", "<", "v", "P", "r", "o", "d", ">", "3", ".", "0", "0", "<", "/", "v", "P", "r", "o", "d", ">", "<", "v", "N", "F", ">", "4", ".", "0", "0", "<", "/", "v", "N", "F", ">", "<", "/", "I", "C", "M", "S", "T", "o", "t", ">", "<", "/", "t", "o", "t", "a", "l", ">">>

DocProt == <<"<", "p", "r", "o", "t", "N", "F", "e", ">", "<", "i", "n", "f", "P", "r", "o", "t", ">", "<", "n", "P", "r", "o", "t", ">", "1", "3", "5", "<", "/", "n", "P", "r", "o", "t", ">", "<", "d", "h", "R", "e", "c", "b", "t", "o", ">", "2", "0", "2", "4", "-", "0", "1", "-", "0", "2", "<", "/", "d", "h", "R", "e", "c", "b", "t", "o", ">", "<", "/", "i", "n", "f", "P", "r", "o", "t", ">", "<", "/", "p", "r", "o", "t", "N", "F", "e", ">">>

DocShapes ==
  [emit : BOOLEAN, dest : BOOLEAN, total : BOOLEAN, prot : BOOLEAN, items : 0..MaxItems]

DocOf(shape) ==
  Concat(<<<<"<", "n", "f", "e", "P", "r", "o", "c", ">", "<", "N", "F", "e", ">", "<", "i", "n", "f", "N", "F", "e", ">">>, DocIde,
           IF shape.emit THEN DocEmit ELSE <<>>,
           IF shape.dest THEN DocDest ELSE <<>>,
           Concat([k \in 1..shape.items |-> DocDet(k)]),
           IF shape.total THEN DocTotal ELSE <<>>,
           <<"<", "/", "i", "n", "f", "N", "F", "e", ">", "<", "/", "N", "F", "e", ">">>,
           IF shape.prot THEN DocProt ELSE <<>>,
           <<"<", "/", "n", "f", "e", "P", "r", "o", "c", ">">>>>)

\* The base64 text of the payload that carries the document of a shape
Flag(b) == IF b THEN "1" ELSE "0"

B64Doc(shape) ==
  <<"D", "o", "c", Flag(shape.emit), Flag(shape.dest), Flag(shape.total), Flag(shape.prot),
    DigitChars[shape.items + 1]>>

\* base64 texts of the model and the bytes they decode to
B64Gzip == <<"H", "4", "s", "I", "A", "A", "A", "A">>

B64Zlib == <<"e", "J", "z", "L", "S", "M", "0", "=">>

B64Junk == <<"A", "A", "A", "A">>

\* base64::Engine::decode (STANDARD): the bytes of a valid text, as what the three
\* decoders make of them
Base64Decode(b64_content) ==
  IF ~Base64Valid(b64_content) THEN Err("Falha ao decodificar base64", <<>>)
  ELSE Ok(CASE b64_content = B64Gzip -> Blob(Decoded(DocFull), DecodeFails, DecodeFails)
            [] b64_content = B64Zlib -> Blob(DecodeFails, DecodeFails, Decoded(DocSummary))
            [] \E shape \in DocShapes : b64_content = B64Doc(shape) ->
                 Blob(DecodeFails,
                      Decoded(DocOf(CHOOSE shape \in DocShapes : b64_content = B64Doc(shape))),
                      DecodeFails)
            [] OTHER -> GarbageBlob)

\* A faulty variant: a failure of the gzip decoder ends the attempts.
decompress_doc_zip_GzipAborts(data) ==
  IF ~data.gzip.ok THEN Err("Falha ao descomprimir documento (gzip)", <<>>)
  ELSE IF data.gzip.text # <<>> THEN Ok(data.gzip.text)
  ELSE IF data.deflate.ok /\ data.deflate.text # <<>> THEN Ok(data.deflate.text)
  ELSE IF data.zlib.ok /\ data.zlib.text # <<>> THEN Ok(data.zlib.text)
  ELSE Err("Falha ao descomprimir documento (tentou gzip, deflate e zlib)", <<>>)

\* nfe.rs:908-939
decompress_doc_zip(data) ==
  IF data.gzip.ok /\ data.gzip.text # <<>> THEN Ok(data.gzip.text)
  ELSE IF data.deflate.ok /\ data.deflate.text # <<>> THEN Ok(data.deflate.text)
  ELSE IF data.zlib.ok /\ data.zlib.text # <<>> THEN Ok(data.zlib.text)
  ELSE Err("Falha ao descomprimir documento (tentou gzip, deflate e zlib)", <<>>)

\* ------------------------------------------------- document extraction

\* NfeParty::default, NfeTotais::default
DefaultParty == [name |-> <<>>, cnpj_cpf |-> <<>>, ie |-> <<>>, address |-> <<>>]

DefaultTotais ==
  [bc_icms |-> <<>>, icms |-> <<>>, bc_icms_st |-> <<>>, icms_st |-> <<>>,
   freight |-> <<>>, insurance |-> <<>>, discount |-> <<>>, other |-> <<>>,
   ipi |-> <<>>, total_products |-> <<>>, total_nfe |-> <<>>]

\* NfeData::default
DefaultNfeData ==
  [chave |-> <<>>, numero |-> <<>>, serie |-> <<>>, data_emissao |-> <<>>,
   emitente |-> DefaultParty, destinatario |-> DefaultParty, produtos |-> <<>>,
   totais |-> DefaultTotais, protocolo |-> <<>>]

\* The content of tag in block, or the empty text
TagOrDefault(block, tag) == unwrap_or_default(extract_tag_content(block, tag))

\* nfe.rs:955-957: the CNPJ, or else the CPF
CnpjOrCpf(b, cnpj) == IF cnpj.some THEN cnpj.val ELSE TagOrDefault(b, <<"C", "P", "F">>)

\* nfe.rs:960-969: the tags of the address, in the order they are formatted, each
\* with the text that precedes it
AddressTags == <<<<"x", "L", "g", "r">>, <<"n", "r", "o">>, <<"x", "B", "a", "i", "r", "r", "o">>, <<"x", "M", "u", "n">>, <<"U", "F">>, <<"C", "E", "P">>>>

AddressSeps == <<<<>>, <<",", " ">>, <<" ", "-", " ">>, <<" ", "-", " ">>, <<"/">>, <<" ", "-", " ", "C", "E", "P", ":", " ">>>>

PartyAddress(b) ==
  Concat([i \in 1..6 |-> AddressSeps[i] \o TagOrDefault(b, AddressTags[i])])

PartyOf(blk) ==
  IF ~blk.some THEN DefaultParty
  ELSE [name |-> TagOrDefault(blk.val, <<"x", "N", "o", "m", "e">>),
        cnpj_cpf |-> CnpjOrCpf(blk.val, extract_tag_content(blk.val, <<"C", "N", "P", "J">>)),
        ie |-> TagOrDefault(blk.val, <<"I", "E">>),
        address |-> PartyAddress(blk.val)]

\* nfe.rs:953-970 and 973-990: one party block
ParseParty(xml, tag) == PartyOf(extract_block(xml, tag))

\* nfe.rs:1032-1041: the nItem attribute, or the running number
DetNumOf(item_num, v) == IF v = None THEN item_num ELSE v

DetNumAt(det_block, item_num, s, e) ==
  IF e = None THEN item_num ELSE DetNumOf(item_num, ParseU32(Slice(det_block, s, s + e)))

DetNumFrom(det_block, item_num, nitem_pos) ==
  IF nitem_pos = None THEN item_num
  ELSE DetNumAt(det_block, item_num, nitem_pos + 7,
                FindFrom(det_block, nitem_pos + 7, <<"\"">>))

DetNum(det_block, item_num) == DetNumFrom(det_block, item_num, Find(det_block, <<"n", "I", "t", "e", "m", "=", "\"">>))

\* nfe.rs:1044-1054: the tag each field of a line item is read from
ProdutoTag ==
  [code |-> <<"c", "P", "r", "o", "d">>, description |-> <<"x", "P", "r", "o", "d">>, ncm |-> <<"N", "C", "M">>, cfop |-> <<"C", "F", "O", "P">>,
   unit |-> <<"u", "C", "o", "m">>, qty |-> <<"q", "C", "o", "m">>, unit_price |-> <<"v", "U", "n", "C", "o", "m">>, total |-> <<"v", "P", "r", "o", "d">>]

Produto(num, prod_block) ==
  [f \in DOMAIN ProdutoTag \cup {"num"} |->
     IF f = "num" THEN num ELSE TagOrDefault(prod_block, ProdutoTag[f])]

\* nfe.rs:1020-1065
RECURSIVE ProductsLoop(_, _, _, _)

ProductsPush(products, num, prod) ==
  IF prod.some THEN Append(products, Produto(num, prod.val)) ELSE products

ProductsDet(xml, abs_start, det_end, item_num, products) ==
  IF det_end = None THEN products
  ELSE ProductsLoop(xml, abs_start + det_end + 6, item_num + 1,
         ProductsPush(products,
                      DetNum(Slice(xml, abs_start, abs_start + det_end + 6), item_num),
                      extract_block(Slice(xml, abs_start, abs_start + det_end + 6), <<"p", "r", "o", "d">>)))

ProductsFrom(xml, search_from, det_start, item_num, products) ==
  IF det_start = None THEN products
  ELSE ProductsDet(xml, search_from + det_start,
                   FindFrom(xml, search_from + det_start, <<"<", "/", "d", "e", "t", ">">>), item_num, products)

ProductsLoop(xml, search_from, item_num, products) ==
  ProductsFrom(xml, search_from, FindFrom(xml, search_from, <<"<", "d", "e", "t", " ">>), item_num, products)

parse_products(xml) == ProductsLoop(xml, 0, 1, <<>>)

\* nfe.rs:997-1007: the tag each total is read from
TotaisTag ==
  [bc_icms |-> <<"v", "B", "C">>, icms |-> <<"v", "I", "C", "M", "S">>, bc_icms_st |-> <<"v", "B", "C", "S", "T">>,
   icms_st |-> <<"v", "S", "T">>, freight |-> <<"v", "F", "r", "e", "t", "e">>, insurance |-> <<"v", "S", "e", "g">>,
   discount |-> <<"v", "D", "e", "s", "c">>, other |-> <<"v", "O", "u", "t", "r", "o">>, ipi |-> <<"v", "I", "P", "I">>,
   total_products |-> <<"v", "P", "r", "o", "d">>, total_nfe |-> <<"v", "N", "F">>]

TotaisOf(blk) ==
  IF ~blk.some THEN DefaultTotais
  ELSE [f \in DOMAIN TotaisTag |-> TagOrDefault(blk.val, TotaisTag[f])]

\* nfe.rs:996-1008
ParseTotais(xml) == TotaisOf(extract_block(xml, <<"I", "C", "M", "S", "T", "o", "t">>))

ProtocoloOf(blk) ==
  IF ~blk.some THEN <<>>
  ELSE Concat(<<TagOrDefault(blk.val, <<"n", "P", "r", "o", "t">>), <<" ", "-", " ">>,
                TagOrDefault(blk.val, <<"d", "h", "R", "e", "c", "b", "t", "o">>)>>)

\* nfe.rs:1011-1015
ParseProtocolo(xml) == ProtocoloOf(extract_block(xml, <<"i", "n", "f", "P", "r", "o", "t">>))

\* nfe.rs:948-950: the tag each header field is read from
IdeTag == [numero |-> <<"n", "N", "F">>, serie |-> <<"s", "e", "r", "i", "e">>, data_emissao |-> <<"d", "h", "E", "m", "i">>]

\* A faulty variant: a document without an issuer block or a line item is refused.
parse_nfe_xml_Strict(xml, access_key) ==
  IF extract_block(xml, <<"e", "m", "i", "t">>).some /\ parse_products(xml) # <<>>
  THEN Ok([DefaultNfeData EXCEPT !.chave = access_key,
                                 !.emitente = ParseParty(xml, <<"e", "m", "i", "t">>),
                                 !.produtos = parse_products(xml)])
  ELSE Err("Documento incompleto", <<>>)

\* nfe.rs:941-1018
parse_nfe_xml(xml, access_key) ==
  Ok([f \in {"chave", "numero", "serie", "data_emissao", "emitente", "destinatario",
              "produtos", "totais", "protocolo"} |->
        CASE f = "chave" -> access_key
          [] f \in DOMAIN IdeTag -> TagOrDefault(xml, IdeTag[f])
          [] f = "emitente" -> ParseParty(xml, <<"e", "m", "i", "t">>)
          [] f = "destinatario" -> ParseParty(xml, <<"d", "e", "s", "t">>)
          [] f = "produtos" -> parse_products(xml)
          [] f = "totais" -> ParseTotais(xml)
          [] f = "protocolo" -> ParseProtocolo(xml)])

\* --------------------------------------------------- response decoding

\* nfe.rs:813: the status code meaning "document found"
SuccessCStat == <<"1", "3", "8">>

\* The operations of the decoder, in the order a call performed them
OpStatus == "cStat"

OpLocate == "extract_all_doc_zips"

OpBase64 == "base64_decode"

OpDecompress == "decompress_doc_zip"

OpExtract == "parse_nfe_xml"

Outcome(res, ops) == [res |-> res, ops |-> ops]

\* nfe.rs:833 and 847, then nfe.rs:851
Extracted(nfe_xml, access_key, ops) ==
  IF ~IsOk(nfe_xml) THEN Outcome(nfe_xml, ops \o <<OpBase64, OpDecompress>>)
  ELSE Outcome(parse_nfe_xml(nfe_xml.val, access_key),
               ops \o <<OpBase64, OpDecompress, OpExtract>>)

Decompressed(compressed, access_key, ops) ==
  IF ~IsOk(compressed) THEN Outcome(compressed, Append(ops, OpBase64))
  ELSE Extracted(decompress_doc_zip(compressed.val), access_key, ops)

\* nfe.rs:827-833 and 842-847: base64, decompression, then extraction
DecodeAndExtract(b64_content, access_key, ops) ==
  Decompressed(Base64Decode(b64_content), access_key, ops)

\* A faulty variant: the first block is taken whatever its schema.
SelectDocZip_First(doc_zips) == doc_zips[1]

\* nfe.rs:824-849: the first block whose schema contains "procNFe", else the first
SelectDocZip(doc_zips) ==
  LET full == {i \in 1..Len(doc_zips) : Contains(doc_zips[i][1], <<"p", "r", "o", "c", "N", "F", "e">>)}
  IN  IF full = {} THEN doc_zips[1]
      ELSE doc_zips[CHOOSE i \in full : \A j \in full : i <= j]

\* The status field as nfe.rs:804-811 reads it
StatusField(soap_xml, tag) == Trim(unwrap_or_default(extract_tag_content(soap_xml, tag)))

\* nfe.rs:818-851
DecodeDocZips(doc_zips, access_key) ==
  IF doc_zips.panic THEN Outcome(Panic, <<OpStatus, OpLocate>>)
  ELSE IF doc_zips.val = <<>>
  THEN Outcome(Err("Nenhum documento encontrado na resposta da SEFAZ", <<>>),
               <<OpStatus, OpLocate>>)
  ELSE DecodeAndExtract(SelectDocZip(doc_zips.val)[2], access_key, <<OpStatus, OpLocate>>)

\* A faulty variant: payload blocks are looked for whatever the status is.
ParseWithStatus_DecodeFirst(soap_xml, access_key, cstat, xmotivo) ==
  IF cstat # SuccessCStat /\ Find(soap_xml, <<"<", "d", "o", "c", "Z", "i", "p">>) = None
  THEN Outcome(Err("SEFAZ: {} - {}", <<cstat, xmotivo>>), <<OpStatus>>)
  ELSE DecodeDocZips(extract_all_doc_zips(soap_xml), access_key)

\* nfe.rs:813-818
ParseWithStatus(soap_xml, access_key, cstat, xmotivo) ==
  IF cstat # SuccessCStat
  THEN Outcome(Err("SEFAZ: {} - {}", <<cstat, xmotivo>>), <<OpStatus>>)
  ELSE DecodeDocZips(extract_all_doc_zips(soap_xml), access_key)

\* nfe.rs:802-852: the result and the operations performed
parse_sefaz_response(soap_xml, access_key) ==
  ParseWithStatus(soap_xml, access_key, StatusField(soap_xml, <<"c", "S", "t", "a", "t">>),
                  StatusField(soap_xml, <<"x", "M", "o", "t", "i", "v", "o">>))

\* ------------------------------------------------------------ rendering

\* str::split on one character
RECURSIVE Split(_, _)
Split(s, c) ==
  LET hits == {i \in 1..Len(s) : s[i] = c}
  IN  IF hits = {} THEN <<s>>
      ELSE LET i == CHOOSE h \in hits : \A j \in hits : h <= j
           IN  <<SubSeq(s, 1, i - 1)>> \o Split(SubSeq(s, i + 1, Len(s)), c)

\* [T]::join
RECURSIVE Join(_, _)
Join(parts, sep) ==
  IF parts = <<>> THEN <<>>
  ELSE IF Len(parts) = 1 THEN parts[1]
  ELSE parts[1] \o sep \o Join(Tail(parts), sep)

\* slice::chunks
RECURSIVE Chunks(_, _)
Chunks(s, n) ==
  IF Len(s) <= n THEN (IF s = <<>> THEN <<>> ELSE <<s>>)
  ELSE <<SubSeq(s, 1, n)>> \o Chunks(SubSeq(s, n + 1, Len(s)), n)

\* Whether every offset of bs is a character boundary of s
Sliceable(s, bs) == \A b \in bs : is_char_boundary(s, b)

\* nfe.rs:1318-1339; Panic when a slice falls inside a multi-byte character
format_cnpj_cpf(value) ==
  IF ByteLen(value) = 14
  THEN IF ~Sliceable(value, {2, 5, 8, 12}) THEN Panic
       ELSE Ok(Concat(<<ByteSlice(value, 0, 2), <<".">>, ByteSlice(value, 2, 5), <<".">>,
                        ByteSlice(value, 5, 8), <<"/">>, ByteSlice(value, 8, 12), <<"-">>,
                        ByteSlice(value, 12, 14)>>))
  ELSE IF ByteLen(value) = 11
  THEN IF ~Sliceable(value, {3, 6, 9}) THEN Panic
       ELSE Ok(Concat(<<ByteSlice(value, 0, 3), <<".">>, ByteSlice(value, 3, 6), <<".">>,
                        ByteSlice(value, 6, 9), <<"-">>, ByteSlice(value, 9, 11)>>))
  ELSE Ok(value)

\* A faulty variant: the key is rendered without grouping.
FormatChave_NoGroups(chave) == chave

\* nfe.rs:1070-1077
FormatChave(chave) == Join(Chunks(chave, 4), <<" ">>)

\* nfe.rs:1084-1088
DateOf(data_emissao, parts) ==
  IF Len(parts) = 3 THEN Concat(<<parts[3], <<"/">>, parts[2], <<"/">>, parts[1]>>)
  ELSE data_emissao

\* nfe.rs:1082-1091
FormatDataEmissao(data_emissao) ==
  IF ByteLen(data_emissao) >= 10
  THEN IF ~is_char_boundary(data_emissao, 10) THEN Panic
       ELSE Ok(DateOf(data_emissao, Split(ByteSlice(data_emissao, 0, 10), "-")))
  ELSE Ok(data_emissao)

\* nfe.rs:1095-1108: one table row
ProductRow(p) ==
  Concat(<<<<"<", "t", "r", ">", "<", "t", "d", " ", "s", "t", "y", "l", "e", "=", "\"", "t", "e", "x", "t", "-", "a", "l", "i", "g", "n", ":", "c", "e", "n", "t", "e", "r", "\"", ">">>, U32ToString(p.num), <<"<", "/", "t", "d", ">", "<", "t", "d", ">">>,
           p.code, <<"<", "/", "t", "d", ">", "<", "t", "d", ">">>, p.description, <<"<", "/", "t", "d", ">", "<", "t", "d", ">">>, p.ncm, <<"<", "/", "t", "d", ">", "<", "t", "d", ">">>,
           p.cfop, <<"<", "/", "t", "d", ">", "<", "t", "d", ">">>, p.unit, <<"<", "/", "t", "d", ">", "<", "t", "d", " ", "s", "t", "y", "l", "e", "=", "\"", "t", "e", "x", "t", "-", "a", "l", "i", "g", "n", ":", "r", "i", "g", "h", "t", "\"", ">">>,
           p.qty, <<"<", "/", "t", "d", ">", "<", "t", "d", " ", "s", "t", "y", "l", "e", "=", "\"", "t", "e", "x", "t", "-", "a", "l", "i", "g", "n", ":", "r", "i", "g", "h", "t", "\"", ">">>, p.unit_price,
           <<"<", "/", "t", "d", ">", "<", "t", "d", " ", "s", "t", "y", "l", "e", "=", "\"", "t", "e", "x", "t", "-", "a", "l", "i", "g", "n", ":", "r", "i", "g", "h", "t", "\"", ">">>, p.total, <<"<", "/", "t", "d", ">", "<", "/", "t", "r", ">">>>>)

\* A faulty variant: the rows are emitted last item first.
RECURSIVE ProductsHtml_Reversed(_)
ProductsHtml_Reversed(produtos) ==
  IF produtos = <<>> THEN <<>>
  ELSE ProductsHtml_Reversed(Tail(produtos)) \o ProductRow(Head(produtos))

\* nfe.rs:1093-1109
RECURSIVE ProductsHtml(_)
ProductsHtml(produtos) ==
  IF produtos = <<>> THEN <<>>
  ELSE ProductRow(Head(produtos)) \o ProductsHtml(Tail(produtos))

HtmlValue(v) == <<"<", "d", "i", "v", " ", "c", "l", "a", "s", "s", "=", "\"", "v", "a", "l", "u", "e", "\"", ">">> \o v \o <<"<", "/", "d", "i", "v", ">">>

\* nfe.rs:1111-1315.  The template's style sheet and static labels are left out;
\* every interpolated value is kept, in the template's order and markup.
DanfeTemplate(data, cnpj_emit, cnpj_dest, data_emissao_fmt) ==
  IF ~IsOk(cnpj_emit) \/ ~IsOk(cnpj_dest) \/ ~IsOk(data_emissao_fmt) THEN Panic
  ELSE Ok(Concat(<<
        <<"<", "h", "t", "m", "l", ">", "<", "t", "i", "t", "l", "e", ">", "D", "A", "N", "F", "E", " ", "-", " ", "N", "F", "-", "e", " ">>, data.numero, <<"<", "/", "t", "i", "t", "l", "e", ">">>,
        <<"<", "s", "t", "r", "o", "n", "g", ">", "N", "F", "-", "e", " ", "N", ".", "&", "o", "r", "d", "m", ";", " ">>, data.numero, <<"<", "/", "s", "t", "r", "o", "n", "g", ">", " ", "&", "m", "d", "a", "s", "h", ";", " ", "S", "&", "e", "a", "c", "u", "t", "e", ";", "r", "i", "e", " ">>,
        data.serie, <<" ", "&", "m", "d", "a", "s", "h", ";", " ">>, data_emissao_fmt.val,
        <<"<", "d", "i", "v", " ", "c", "l", "a", "s", "s", "=", "\"", "k", "e", "y", "\"", ">">>, FormatChave(data.chave), <<"<", "/", "d", "i", "v", ">">>,
        <<"<", "s", "t", "r", "o", "n", "g", ">", "P", "r", "o", "t", "o", "c", "o", "l", "o", ":", "<", "/", "s", "t", "r", "o", "n", "g", ">", " ">>, data.protocolo,
        HtmlValue(data.emitente.name), HtmlValue(cnpj_emit.val),
        HtmlValue(data.emitente.ie), HtmlValue(data.emitente.address),
        HtmlValue(data.destinatario.name), HtmlValue(cnpj_dest.val),
        HtmlValue(data.destinatario.ie), HtmlValue(data.destinatario.address),
        <<"<", "t", "b", "o", "d", "y", ">">>, ProductsHtml(data.produtos), <<"<", "/", "t", "b", "o", "d", "y", ">">>,
        HtmlValue(data.totais.bc_icms), HtmlValue(data.totais.icms),
        HtmlValue(data.totais.bc_icms_st), HtmlValue(data.totais.icms_st),
        HtmlValue(data.totais.freight), HtmlValue(data.totais.insurance),
        HtmlValue(data.totais.discount), HtmlValue(data.totais.other),
        HtmlValue(data.totais.ipi), HtmlValue(data.totais.total_products),
        HtmlValue(<<"R", "$", " ">> \o data.totais.total_nfe), <<"<", "/", "h", "t", "m", "l", ">">>>>))

\* nfe.rs:1069-1316
generate_danfe_html(data) ==
  DanfeTemplate(data, format_cnpj_cpf(data.emitente.cnpj_cpf),
                format_cnpj_cpf(data.destinatario.cnpj_cpf),
                FormatDataEmissao(data.data_emissao))

\* -------------------------------------------------- identity provider

HexChars == <<"0", "1", "2", "3", "4", "5", "6", "7", "8", "9", "A", "B", "C", "D", "E", "F">>

\* format!("{:02X}", b)
HexByte(b) == <<HexChars[(b \div 16) + 1], HexChars[(b % 16) + 1]>>

UpperCase == <<"A", "B", "C", "D", "E", "F">>

LowerCase == <<"a", "b", "c", "d", "e", "f">>

\* u8::to_ascii_lowercase, on the letters a thumbprint can hold
to_ascii_lowercase(c) ==
  IF \E i \in 1..6 : UpperCase[i] = c
  THEN LowerCase[CHOOSE i \in 1..6 : UpperCase[i] = c]
  ELSE c

\* A faulty variant: the comparison is exact.
eq_ignore_ascii_case_Exact(a, b) == a = b

\* str::eq_ignore_ascii_case
eq_ignore_ascii_case(a, b) ==
  /\ Len(a) = Len(b)
  /\ \A i \in 1..Len(a) : to_ascii_lowercase(a[i]) = to_ascii_lowercase(b[i])

\* nfe.rs:663-687: "AB:CD:..." of the SHA-1 property, empty when it cannot be read
get_cert_thumbprint(cert) ==
  IF ~cert.sha1_ok THEN <<>>
  ELSE Join([i \in 1..Len(cert.hash) |-> HexByte(cert.hash[i])], <<":">>)

\* nfe.rs:640-660: the index of the first matching certificate, or None
find_cert_by_thumbprint_raw(store, thumbprint) ==
  LET hits == {i \in 1..Len(store) :
                 eq_ignore_ascii_case(get_cert_thumbprint(store[i]), thumbprint)}
  IN  IF hits = {} THEN None ELSE CHOOSE i \in hits : \A j \in hits : i <= j

\* nfe.rs:740-745: the first colon-separated part that is 14 digits once trimmed
CnpjPart(s) ==
  LET parts == Split(s, ":")
      hits == {i \in 1..Len(parts) :
                 LET t == Trim(parts[i])
                 IN  ByteLen(t) = 14 /\ \A k \in 1..Len(t) : is_ascii_digit(t[k])}
  IN  IF hits = {} THEN NoneStr
      ELSE Some(Trim(parts[CHOOSE i \in hits : \A j \in hits : i <= j]))

\* nfe.rs:747-761: the first maximal digit run of length 14
RECURSIVE CnpjRun(_, _, _)
CnpjRun(s, i, buf) ==
  IF i > Len(s) THEN (IF Len(buf) = 14 THEN Some(buf) ELSE NoneStr)
  ELSE IF is_ascii_digit(s[i]) THEN CnpjRun(s, i + 1, Append(buf, s[i]))
  ELSE IF Len(buf) = 14 THEN Some(buf)
  ELSE CnpjRun(s, i + 1, <<>>)

FirstSome(a, b) == IF a.some THEN a ELSE b

\* nfe.rs:738-762
find_cnpj_in_str(s) == FirstSome(CnpjPart(s), CnpjRun(s, 1, <<>>))

\* nfe.rs:690-736, on the two names CertGetNameStringW returns
extract_cnpj_from_cert(cert) ==
  unwrap_or_default(FirstSome(find_cnpj_in_str(cert.simple), find_cnpj_in_str(cert.rdn)))

\* The certificates of the "MY" store in the model (their hashes cut to two bytes):
\* a company certificate, one whose subject holds no tax identifier and the
\* certificate of another company, which no query of the model asks for.
CertCompany ==
  [hash |-> <<171, 18>>, sha1_ok |-> TRUE, simple |-> <<"A", "C", "M", "E", " ", "L", "T", "D", "A", ":", "1", "2", "3", "4", "5", "6", "7", "8", "0", "0", "0", "1", "9", "0">>,
   rdn |-> <<"C", "N", "=", "A", "C", "M", "E", " ", "L", "T", "D", "A", ":", "1", "2", "3", "4", "5", "6", "7", "8", "0", "0", "0", "1", "9", "0", ",", " ", "O", "=", "I", "C", "P", "-", "B", "r", "a", "s", "i", "l">>,
   pfx |-> <<48, 130, 9>>]

CertPerson ==
  [hash |-> <<205, 52>>, sha1_ok |-> TRUE, simple |-> <<"B", "O", "B", ":", "1", "2", "3", "4", "5", "6", "7", "8", "9", "0", "1">>,
   rdn |-> <<"C", "N", "=", "B", "O", "B", ":", "1", "2", "3", "4", "5", "6", "7", "8", "9", "0", "1">>, pfx |-> <<48, 130, 5>>]

CertOther ==
  [hash |-> <<239, 86>>, sha1_ok |-> TRUE, simple |-> <<"O", "T", "H", "E", "R", " ", "S", "A", ":", "9", "8", "7", "6", "5", "4", "3", "2", "0", "0", "0", "1", "1", "0">>,
   rdn |-> <<"C", "N", "=", "O", "T", "H", "E", "R", " ", "S", "A", ":", "9", "8", "7", "6", "5", "4", "3", "2", "0", "0", "0", "1", "1", "0">>, pfx |-> <<48, 130, 3>>]

InitialStore == <<CertCompany, CertPerson, CertOther>>

\* What the platform does with the calls of export_cert_pfx: all succeed, or the
\* named one fails.
ExportFaults == {"none", "CertOpenSystemStoreW", "CertOpenStore",
                 "CertAddCertificateContextToStore", "PFXExportCertStoreEx#1",
                 "PFXExportCertStoreEx#2"}

\* The first export call fails because the private key is not marked exportable;
\* "PFXExportCertStoreEx#1" is its failure for any other reason.
FaultNotExportable == "PFXExportCertStoreEx#1:not_exportable"

\* The first call of PFXExportCertStoreEx returns 0; the code does not ask why
FirstExportFails(fault) == fault \in {"PFXExportCertStoreEx#1", FaultNotExportable}

\* nfe.rs:612
ErrNotExportable == "Falha ao exportar certificado. A chave privada pode nao ser exportavel."

CallOpenSystem == "CertOpenSystemStoreW"

CallOpenMemory == "CertOpenStore"

CallOpenSystemNull == "CertOpenSystemStoreW=null"

CallOpenMemoryNull == "CertOpenStore=null"

CallCloseSystem == "CertCloseStore(store)"

CallCloseMemory == "CertCloseStore(mem_store)"

CallExport == "PFXExportCertStoreEx"

\* nfe.rs:556-635: the certificate was found at index cert of the store
ExportFound(store, cert, fault) ==
  IF fault = "CertOpenStore"
  THEN Outcome(Err("Falha ao criar repositorio temporario", <<>>),
               <<CallOpenSystem, CallOpenMemoryNull, CallCloseSystem>>)
  ELSE IF fault = "CertAddCertificateContextToStore"
  THEN Outcome(Err("Falha ao adicionar certificado ao repositorio temporario", <<>>),
               <<CallOpenSystem, CallOpenMemory, CallCloseMemory, CallCloseSystem>>)
  ELSE IF FirstExportFails(fault)
  THEN Outcome(Err(ErrNotExportable, <<>>),
               <<CallOpenSystem, CallOpenMemory, CallExport, CallCloseMemory,
                 CallCloseSystem>>)
  ELSE IF fault = "PFXExportCertStoreEx#2"
  THEN Outcome(Err("Falha ao exportar certificado como PFX", <<>>),
               <<CallOpenSystem, CallOpenMemory, CallExport, CallExport,
                 CallCloseMemory, CallCloseSystem>>)
  ELSE Outcome(Ok(<<store[cert].pfx, extract_cnpj_from_cert(store[cert])>>),
               <<CallOpenSystem, CallOpenMemory, CallExport, CallExport,
                 CallCloseMemory, CallCloseSystem>>)

\* The lookup whose failure returns without closing the system store
ExportLookup_Leaks(store, cert, fault) ==
  IF cert = None
  THEN Outcome(Err("Certificado nao encontrado com o thumbprint informado", <<>>),
               <<CallOpenSystem>>)
  ELSE ExportFound(store, cert, fault)

\* nfe.rs:544-554
ExportLookup(store, cert, fault) ==
  IF cert = None
  THEN Outcome(Err("Certificado nao encontrado com o thumbprint informado", <<>>),
               <<CallOpenSystem, CallCloseSystem>>)
  ELSE ExportFound(store, cert, fault)

\* nfe.rs:531-637: the result, <<pfx_data, cnpj>> on success, and the store calls
\* made.  The random password plays no part in what follows and is left out.
export_cert_pfx(store, thumbprint, fault) ==
  IF fault = "CertOpenSystemStoreW"
  THEN Outcome(Err("Falha ao abrir repositorio de certificados", <<>>),
               <<CallOpenSystemNull>>)
  ELSE ExportLookup(store, find_cert_by_thumbprint_raw(store, thumbprint), fault)

\* --------------------------------------------- envelope and transport

\* nfe.rs:88
Endpoint == "https://www1.nfe.fazenda.gov.br/NFeDistribuicaoDFe/NFeDistribuicaoDFe.asmx"

\* nfe.rs:104
ContentType == "application/soap+xml; charset=utf-8"

\* StatusCode::is_success
is_success(status) == 200 <= status /\ status <= 299

PreviewLimit == 500

\* nfe.rs:116-119: Ok(body) passes the body on; slicing inside a multi-byte
\* character panics
CheckStatus(status, body) ==
  IF is_success(status) THEN Ok(body)
  ELSE IF ByteLen(body) > PreviewLimit
  THEN IF ~is_char_boundary(body, PreviewLimit) THEN Panic
       ELSE Err("SEFAZ retornou status {}: {}", <<status, ByteSlice(body, 0, PreviewLimit)>>)
  ELSE Err("SEFAZ retornou status {}: {}", <<status, body>>)


\* ---------------------------------------------------------------- state

\* Bounds of the model
MaxQueries == 2

MaxRandom == 1

Queries == 1..MaxQueries

VARIABLES
  pc,            \* where each invocation of query_nfe_impl stands
  args,          \* its arguments: thumbprint and access_key
  locals,        \* its local variables, dropped when it returns
  pfx_bytes,     \* the exported bundle buffer: its bytes ...
  pfx_state,     \* ... and whether it is "unset", "held" or "released"
  result,        \* what the invocation returned, Pending before
  trace,         \* the stages and calls each invocation has performed
  posts,         \* the HTTP requests each invocation has issued
  files,         \* the temporary directory: file name -> content and writer
  system_store,  \* the certificates of the platform's "MY" store
  fn             \* a function under check: its name, input and output

vars == <<pc, args, locals, pfx_bytes, pfx_state, result, trace,
          posts, files, system_store, fn>>

qvars == <<pc, args, locals, pfx_bytes, pfx_state, result, trace,
           posts, files, system_store>>

Pending == [kind |-> "pending"]

NoArgs == [thumbprint |-> <<>>, access_key |-> <<>>]

NoLocals ==
  [uf_code |-> 0, cnpj |-> <<>>, soap_xml |-> <<>>, status |-> 0, body |-> <<>>,
   nfe_data |-> DefaultNfeData, html |-> <<>>, path |-> <<>>]

\* No function is under check
FnIdle == [op |-> "idle", in |-> <<>>, out |-> Pending, applied |-> FALSE]

\* The stages of the pipeline, in the order of the design
StageNames == <<"identity", "envelope", "exchange", "decode", "extract", "render", "persist">>

StageIndex(s) == CHOOSE i \in 1..Len(StageNames) : StageNames[i] = s

Ev(stage, call, ok) == [stage |-> stage, call |-> call, ok |-> ok]

\* One event per call, all successful but the last when the whole failed
Events(stage, calls, ok) ==
  [i \in 1..Len(calls) |-> Ev(stage, calls[i], ok \/ i < Len(calls))]

\* The stage of each operation of the decoder
OpStage(op) == IF op = OpExtract THEN "extract" ELSE "decode"

\* Arguments of the invocations of the model
KeyValid == [i \in 1..AccessKeyLen |-> DigitChars[(i % 10) + 1]]

KeyWithLetter == [KeyValid EXCEPT ![7] = "x"]

ThumbCompany == <<"a", "b", ":", "1", "2">>

ThumbPerson == <<"C", "D", ":", "3", "4">>

ThumbMalformed == <<"X", "Y", "-", "Z">>

KeyArgs == {KeyValid, KeyWithLetter}

ThumbArgs == {ThumbCompany, ThumbPerson, ThumbMalformed}

\* Responses of the service in the model
Body138 ==
  <<"<", "r", "e", "t", "D", "i", "s", "t", "D", "F", "e", "I", "n", "t", ">", "<", "c", "S", "t", "a", "t", ">", "1", "3", "8", "<", "/", "c", "S", "t", "a", "t", ">", "<", "x", "M", "o", "t", "i", "v", "o", ">", "D", "o", "c", "u", "m", "e", "n", "t", "o", " ", "l", "o", "c", "a", "l", "i", "z", "a", "d", "o", "<", "/", "x", "M", "o", "t", "i", "v", "o", ">">>
  \o <<"<", "d", "o", "c", "Z", "i", "p", " ", "N", "S", "U", "=", "\"", "1", "\"", " ", "s", "c", "h", "e", "m", "a", "=", "\"", "r", "e", "s", "N", "F", "e", "_", "v", "1", ".", "0", "1", ".", "x", "s", "d", "\"", ">", "e", "J", "z", "L", "S", "M", "0", "=", "<", "/", "d", "o", "c", "Z", "i", "p", ">">>
  \o <<"<", "d", "o", "c", "Z", "i", "p", " ", "N", "S", "U", "=", "\"", "2", "\"", " ", "s", "c", "h", "e", "m", "a", "=", "\"", "p", "r", "o", "c", "N", "F", "e", "_", "v", "4", ".", "0", "0", ".", "x", "s", "d", "\"", ">", "H", "4", "s", "I", "A", "A", "A", "A", "<", "/", "d", "o", "c", "Z", "i", "p", ">", "<", "/", "r", "e", "t", "D", "i", "s", "t", "D", "F", "e", "I", "n", "t", ">">>

Body137 ==
  <<"<", "r", "e", "t", "D", "i", "s", "t", "D", "F", "e", "I", "n", "t", ">", "<", "c", "S", "t", "a", "t", ">", "1", "3", "7", "<", "/", "c", "S", "t", "a", "t", ">", "<", "x", "M", "o", "t", "i", "v", "o", ">", "N", "e", "n", "h", "u", "m", " ", "d", "o", "c", "u", "m", "e", "n", "t", "o", " ", "l", "o", "c", "a", "l", "i", "z", "a", "d", "o", "<", "/", "x", "M", "o", "t", "i", "v", "o", ">">>
  \o <<"<", "d", "o", "c", "Z", "i", "p", " ", "N", "S", "U", "=", "\"", "2", "\"", " ", "s", "c", "h", "e", "m", "a", "=", "\"", "p", "r", "o", "c", "N", "F", "e", "_", "v", "4", ".", "0", "0", ".", "x", "s", "d", "\"", ">", "H", "4", "s", "I", "A", "A", "A", "A", "<", "/", "d", "o", "c", "Z", "i", "p", ">", "<", "/", "r", "e", "t", "D", "i", "s", "t", "D", "F", "e", "I", "n", "t", ">">>

\* Only the summary of the document is returned
Body138Summary ==
  <<"<", "r", "e", "t", "D", "i", "s", "t", "D", "F", "e", "I", "n", "t", ">", "<", "c", "S", "t", "a", "t", ">", "1", "3", "8", "<", "/", "c", "S", "t", "a", "t", ">", "<", "x", "M", "o", "t", "i", "v", "o", ">", "D", "o", "c", "u", "m", "e", "n", "t", "o", " ", "l", "o", "c", "a", "l", "i", "z", "a", "d", "o", "<", "/", "x", "M", "o", "t", "i", "v", "o", ">">>
  \o <<"<", "d", "o", "c", "Z", "i", "p", " ", "N", "S", "U", "=", "\"", "1", "\"", " ", "s", "c", "h", "e", "m", "a", "=", "\"", "r", "e", "s", "N", "F", "e", "_", "v", "1", ".", "0", "1", ".", "x", "s", "d", "\"", ">", "e", "J", "z", "L", "S", "M", "0", "=", "<", "/", "d", "o", "c", "Z", "i", "p", ">", "<", "/", "r", "e", "t", "D", "i", "s", "t", "D", "F", "e", "I", "n", "t", ">">>

Body138Empty == <<"<", "r", "e", "t", "D", "i", "s", "t", "D", "F", "e", "I", "n", "t", ">", "<", "c", "S", "t", "a", "t", ">", " ", "1", "3", "8", " ", "<", "/", "c", "S", "t", "a", "t", ">", "<", "x", "M", "o", "t", "i", "v", "o", ">", "o", "k", "<", "/", "x", "M", "o", "t", "i", "v", "o", ">", "<", "/", "r", "e", "t", "D", "i", "s", "t", "D", "F", "e", "I", "n", "t", ">">>

BodyPlain == <<"S", "e", "r", "v", "i", "c", "e", " ", "U", "n", "a", "v", "a", "i", "l", "a", "b", "l", "e">>

\* The responses of the model: a status line and the body that follows it
Responses ==
  {<<200, Body138>>, <<200, Body138Summary>>, <<200, Body137>>, <<200, Body138Empty>>,
   <<503, BodyPlain>>}

HttpStatuses == {r[1] : r \in Responses}

Bodies == {r[2] : r \in Responses}

\* No query has been invoked, the temporary directory is empty
InitQueries ==
  /\ pc = [q \in Queries |-> "idle"]
  /\ args = [q \in Queries |-> NoArgs]
  /\ locals = [q \in Queries |-> NoLocals]
  /\ pfx_bytes = [q \in Queries |-> <<>>]
  /\ pfx_state = [q \in Queries |-> "unset"]
  /\ result = [q \in Queries |-> Pending]
  /\ trace = [q \in Queries |-> <<>>]
  /\ posts = [q \in Queries |-> <<>>]
  /\ files = [n \in {} |-> <<>>]
  /\ system_store = InitialStore

Init == InitQueries /\ fn = FnIdle


\* -------------------------------------------------------------- actions

\* The function returns res: its locals are dropped and the bundle buffer, if it
\* holds one, is released with the bytes it has at that moment.
Return(q, res) ==
  /\ pc' = [pc EXCEPT ![q] = "done"]
  /\ result' = [result EXCEPT ![q] = res]
  /\ locals' = [locals EXCEPT ![q] = NoLocals]
  /\ pfx_state' = [pfx_state EXCEPT ![q] = IF @ = "held" THEN "released" ELSE @]

Goto(q, label) ==
  /\ pc' = [pc EXCEPT ![q] = label]
  /\ UNCHANGED <<result, pfx_state>>

Log(q, events) == trace' = [trace EXCEPT ![q] = @ \o events]

\* A faulty variant: the certificate export follows whatever the key check found.
Validated_IgnoreError(q, v) ==
  /\ Goto(q, "export")
  /\ locals' = [locals EXCEPT ![q].uf_code = IF IsOk(v) THEN v.val ELSE 0]

\* nfe.rs:66-74: v is the outcome of the key check
Validated(q, v) ==
  IF IsOk(v)
  THEN /\ Goto(q, "export")
       /\ locals' = [locals EXCEPT ![q].uf_code = v.val]
  ELSE Return(q, v)

\* The function f as an explicit table, computed once
Tabulated(f) == f @@ <<>>

\* ValidateAccessKey on every key of the model
ValidateTable == Tabulated([k \in KeyArgs |-> ValidateAccessKey(k)])

\* nfe.rs:54-74: the command is invoked with its two arguments and checks the key
Invoke(q) ==
  /\ pc[q] = "idle"
  /\ \E t \in ThumbArgs, k \in KeyArgs :
       /\ args' = [args EXCEPT ![q] = [thumbprint |-> t, access_key |-> k]]
       /\ Validated(q, ValidateTable[k])
  /\ UNCHANGED <<pfx_bytes, trace, posts, files, system_store, fn>>

\* nfe.rs:77: out is what export_cert_pfx returned and the calls it made
Exported(q, out) ==
  /\ Log(q, Events("identity", Append(out.ops, "export_cert_pfx"), IsOk(out.res)))
  /\ IF IsOk(out.res)
     THEN /\ pc' = [pc EXCEPT ![q] = "check_cnpj"]
          /\ pfx_bytes' = [pfx_bytes EXCEPT ![q] = out.res.val[1]]
          /\ pfx_state' = [pfx_state EXCEPT ![q] = "held"]
          /\ locals' = [locals EXCEPT ![q].cnpj = out.res.val[2]]
          /\ UNCHANGED result
     ELSE /\ Return(q, out.res)
          /\ UNCHANGED pfx_bytes

\* export_cert_pfx on the store, every thumbprint and every platform fault of the
\* model
ExportTable ==
  Tabulated([s \in {InitialStore}, t \in ThumbArgs, f \in ExportFaults |->
               export_cert_pfx(s, t, f)])

\* A faulty variant: the certificate is moved out of the system store.
ExportCert_Moves(q) ==
  /\ pc[q] = "export"
  /\ \E fault \in ExportFaults :
       Exported(q, ExportTable[system_store, args[q].thumbprint, fault])
  /\ LET c == find_cert_by_thumbprint_raw(system_store, args[q].thumbprint)
     IN  system_store' =
           IF c = None THEN system_store
           ELSE [i \in 1..(Len(system_store) - 1) |->
                   IF i < c THEN system_store[i] ELSE system_store[i + 1]]
  /\ UNCHANGED <<args, posts, files, fn>>

\* nfe.rs:77: export_cert_pfx on the system store, under any platform fault
ExportCert(q) ==
  /\ pc[q] = "export"
  /\ \E fault \in ExportFaults :
       Exported(q, ExportTable[system_store, args[q].thumbprint, fault])
  /\ UNCHANGED <<args, posts, files, system_store, fn>>

\* Vec::fill(0)
Zeroed(bytes) == [i \in 1..Len(bytes) |-> 0]

\* A faulty variant: the envelope carries a counter read from shared state.
build_soap_request_Stateful(access_key, cnpj, uf_code, tp_amb) ==
  Concat(<<<<"<", "s", "o", "a", "p", "1", "2", ":", "E", "n", "v", "e", "l", "o", "p", "e", ">", "<", "s", "e", "q", ">">>, U32ToString(Cardinality(DOMAIN files)),
           <<"<", "/", "s", "e", "q", ">", "<", "c", "U", "F", ">">>, U32ToString(uf_code), <<"<", "/", "c", "U", "F", ">", "<", "t", "p", "A", "m", "b", ">">>, tp_amb,
           <<"<", "/", "t", "p", "A", "m", "b", ">", "<", "C", "N", "P", "J", ">">>, cnpj, <<"<", "/", "C", "N", "P", "J", ">", "<", "c", "h", "N", "F", "e", ">">>, access_key,
           <<"<", "/", "c", "h", "N", "F", "e", ">", "<", "/", "s", "o", "a", "p", "1", "2", ":", "E", "n", "v", "e", "l", "o", "p", "e", ">">>>>)

\* nfe.rs:766-798; the XML declaration and the namespace attributes are cut
build_soap_request(access_key, cnpj, uf_code, tp_amb) ==
  Concat(<<<<"<", "s", "o", "a", "p", "1", "2", ":", "E", "n", "v", "e", "l", "o", "p", "e", ">", "<", "s", "o", "a", "p", "1", "2", ":", "H", "e", "a", "d", "e", "r", ">", "<", "n", "f", "e", "C", "a", "b", "e", "c", "M", "s", "g", ">", "<", "c", "U", "F", ">">>, U32ToString(uf_code),
           <<"<", "/", "c", "U", "F", ">", "<", "v", "e", "r", "s", "a", "o", "D", "a", "d", "o", "s", ">", "1", ".", "0", "1", "<", "/", "v", "e", "r", "s", "a", "o", "D", "a", "d", "o", "s", ">", "<", "/", "n", "f", "e", "C", "a", "b", "e", "c", "M", "s", "g", ">", "<", "/", "s", "o", "a", "p", "1", "2", ":", "H", "e", "a", "d", "e", "r", ">">>,
           <<"<", "s", "o", "a", "p", "1", "2", ":", "B", "o", "d", "y", ">", "<", "n", "f", "e", "D", "i", "s", "t", "D", "F", "e", "I", "n", "t", "e", "r", "e", "s", "s", "e", ">", "<", "n", "f", "e", "D", "a", "d", "o", "s", "M", "s", "g", ">", "<", "d", "i", "s", "t", "D", "F", "e", "I", "n", "t", " ", "v", "e", "r", "s", "a", "o", "=", "\"", "1", ".", "0", "1", "\"", ">", "<", "t", "p", "A", "m", "b", ">">>,
           tp_amb, <<"<", "/", "t", "p", "A", "m", "b", ">", "<", "c", "U", "F", "A", "u", "t", "o", "r", ">">>, U32ToString(uf_code), <<"<", "/", "c", "U", "F", "A", "u", "t", "o", "r", ">", "<", "C", "N", "P", "J", ">">>,
           cnpj, <<"<", "/", "C", "N", "P", "J", ">", "<", "c", "o", "n", "s", "C", "h", "N", "F", "e", ">", "<", "c", "h", "N", "F", "e", ">">>, access_key,
           <<"<", "/", "c", "h", "N", "F", "e", ">", "<", "/", "c", "o", "n", "s", "C", "h", "N", "F", "e", ">", "<", "/", "d", "i", "s", "t", "D", "F", "e", "I", "n", "t", ">", "<", "/", "n", "f", "e", "D", "a", "d", "o", "s", "M", "s", "g", ">", "<", "/", "n", "f", "e", "D", "i", "s", "t", "D", "F", "e", "I", "n", "t", "e", "r", "e", "s", "s", "e", ">">>,
           <<"<", "/", "s", "o", "a", "p", "1", "2", ":", "B", "o", "d", "y", ">", "<", "/", "s", "o", "a", "p", "1", "2", ":", "E", "n", "v", "e", "l", "o", "p", "e", ">">>>>)

\* A faulty variant: the envelope is built without looking at the CNPJ.
CheckCnpj_NoCheck(q) ==
  /\ pc[q] = "check_cnpj"
  /\ Goto(q, "tls_identity")
  /\ Log(q, <<Ev("identity", "cnpj", TRUE), Ev("envelope", "build_soap_request", TRUE)>>)
  /\ locals' = [locals EXCEPT ![q].soap_xml =
                  build_soap_request(args[q].access_key, locals[q].cnpj,
                                     locals[q].uf_code, <<"1">>)]
  /\ UNCHANGED <<args, pfx_bytes, posts, files, system_store, fn>>

\* nfe.rs:79-85: without a CNPJ the bundle is zeroed and the query fails; with one the
\* envelope is built
CheckCnpj(q) ==
  /\ pc[q] = "check_cnpj"
  /\ IF locals[q].cnpj = <<>>
     THEN /\ pfx_bytes' = [pfx_bytes EXCEPT ![q] = Zeroed(@)]
          /\ Log(q, <<Ev("identity", "cnpj", FALSE)>>)
          /\ Return(q, Err(ErrCnpj, <<>>))
     ELSE /\ Goto(q, "tls_identity")
          /\ Log(q, <<Ev("identity", "cnpj", TRUE), Ev("envelope", "build_soap_request", TRUE)>>)
          /\ locals' = [locals EXCEPT ![q].soap_xml =
                          build_soap_request(args[q].access_key, locals[q].cnpj,
                                             locals[q].uf_code, <<"1">>)]
          /\ UNCHANGED pfx_bytes
  /\ UNCHANGED <<args, posts, files, system_store, fn>>

\* nfe.rs:90-94: the TLS identity is built from the bundle, and only then is the
\* bundle zeroed; a failure returns at once
TlsIdentity(q) ==
  /\ pc[q] = "tls_identity"
  /\ \E ok \in BOOLEAN :
       /\ Log(q, <<Ev("exchange", "Identity::from_pkcs12_der", ok)>>)
       /\ IF ok
          THEN /\ pfx_bytes' = [pfx_bytes EXCEPT ![q] = Zeroed(@)]
               /\ Goto(q, "build_client")
               /\ UNCHANGED locals
          ELSE /\ Return(q, Err("Falha ao criar identidade TLS: {}", <<>>))
               /\ UNCHANGED pfx_bytes
  /\ UNCHANGED <<args, posts, files, system_store, fn>>

\* nfe.rs:96-100
BuildClient(q) ==
  /\ pc[q] = "build_client"
  /\ \E ok \in BOOLEAN :
       /\ Log(q, <<Ev("exchange", "ClientBuilder::build", ok)>>)
       /\ IF ok
          THEN Goto(q, "send") /\ UNCHANGED locals
          ELSE Return(q, Err("Falha ao criar cliente HTTP: {}", <<>>))
  /\ UNCHANGED <<args, pfx_bytes, posts, files, system_store, fn>>

\* nfe.rs:102-106: the request leaves
Send(q) ==
  /\ pc[q] = "send"
  /\ posts' = [posts EXCEPT ![q] =
                 Append(@, [method |-> "POST", url |-> Endpoint,
                            content_type |-> ContentType, body |-> locals[q].soap_xml])]
  /\ Log(q, <<Ev("exchange", "send", TRUE)>>)
  /\ Goto(q, "await_response")
  /\ UNCHANGED <<args, locals, pfx_bytes, files, system_store, fn>>

\* A faulty variant: the request is sent again after a transport failure.
Respond_Retry(q) ==
  /\ pc[q] = "await_response"
  /\ \/ /\ Log(q, <<Ev("exchange", "send.await", FALSE)>>)
        /\ Goto(q, "send")
        /\ UNCHANGED locals
     \/ \E st \in HttpStatuses :
          /\ Log(q, <<Ev("exchange", "send.await", TRUE)>>)
          /\ locals' = [locals EXCEPT ![q].status = st]
          /\ Goto(q, "read_body")
  /\ UNCHANGED <<args, pfx_bytes, posts, files, system_store, fn>>

\* nfe.rs:107-110: the exchange fails (connection, TLS handshake, 30 s timeout) or
\* the response's status line arrives
Respond(q) ==
  /\ pc[q] = "await_response"
  /\ \/ /\ Log(q, <<Ev("exchange", "send.await", FALSE)>>)
        /\ Return(q, Err("Falha na comunicacao com SEFAZ: {}", <<>>))
     \/ \E st \in HttpStatuses :
          /\ Log(q, <<Ev("exchange", "send.await", TRUE)>>)
          /\ locals' = [locals EXCEPT ![q].status = st]
          /\ Goto(q, "read_body")
  /\ UNCHANGED <<args, pfx_bytes, posts, files, system_store, fn>>

\* nfe.rs:111-114
ReadBody(q) ==
  /\ pc[q] = "read_body"
  /\ \/ /\ Log(q, <<Ev("exchange", "text.await", FALSE)>>)
        /\ Return(q, Err("Falha ao ler resposta: {}", <<>>))
     \/ \E b \in {r[2] : r \in {x \in Responses : x[1] = locals[q].status}} :
          /\ Log(q, <<Ev("exchange", "text.await", TRUE)>>)
          /\ locals' = [locals EXCEPT ![q].body = b]
          /\ Goto(q, "check_status")
  /\ UNCHANGED <<args, pfx_bytes, posts, files, system_store, fn>>

\* nfe.rs:116-119: r is the outcome of the status check
StatusChecked(q, r) ==
  /\ Log(q, <<Ev("exchange", "is_success", IsOk(r))>>)
  /\ IF IsOk(r) THEN Goto(q, "parse") /\ UNCHANGED locals ELSE Return(q, r)

\* CheckStatus on every response of the model
StatusTable == Tabulated([r \in Responses |-> CheckStatus(r[1], r[2])])

StatusStep(q) ==
  /\ pc[q] = "check_status"
  /\ StatusChecked(q, StatusTable[<<locals[q].status, locals[q].body>>])
  /\ UNCHANGED <<args, pfx_bytes, posts, files, system_store, fn>>

\* One event per operation of the decoder; the last one failed when the result is
\* not Ok
DecoderEvents(ops, ok) ==
  [i \in 1..Len(ops) |-> Ev(OpStage(ops[i]), ops[i], ok \/ i < Len(ops))]

\* nfe.rs:122: out is what parse_sefaz_response returned and the operations it
\* performed
Parsed(q, out) ==
  /\ Log(q, DecoderEvents(out.ops, IsOk(out.res)))
  /\ IF IsOk(out.res)
     THEN /\ locals' = [locals EXCEPT ![q].nfe_data = out.res.val]
          /\ Goto(q, "render")
     ELSE Return(q, out.res)

\* parse_sefaz_response on every response body and key of the model
ParseTable == Tabulated([b \in Bodies, k \in KeyArgs |-> parse_sefaz_response(b, k)])

Parse(q) ==
  /\ pc[q] = "parse"
  /\ Parsed(q, ParseTable[locals[q].body, args[q].access_key])
  /\ UNCHANGED <<args, pfx_bytes, posts, files, system_store, fn>>

\* nfe.rs:125: r is what generate_danfe_html returned
Rendered(q, r) ==
  /\ Log(q, <<Ev("render", "generate_danfe_html", IsOk(r))>>)
  /\ IF IsOk(r)
     THEN /\ locals' = [locals EXCEPT ![q].html = r.val]
          /\ Goto(q, "save_create")
     ELSE Return(q, r)

\* generate_danfe_html on every document the responses of the model decode to
RenderTable ==
  Tabulated([d \in {ParseTable[x].res.val :
                      x \in {y \in DOMAIN ParseTable : IsOk(ParseTable[y].res)}}
               |-> generate_danfe_html(d)])

Render(q) ==
  /\ pc[q] = "render"
  /\ Rendered(q, RenderTable[locals[q].nfe_data])
  /\ UNCHANGED <<args, pfx_bytes, posts, files, system_store, fn>>

\* nfe.rs:1347-1349: "danfe_{random}.html" in the temporary directory
TempFileName(random) == Concat(<<<<"d", "a", "n", "f", "e", "_">>, U32ToString(random), <<".", "h", "t", "m", "l">>>>)

\* The directory with file name holding content, written by q
WithFile(dir, name, content, q) ==
  [n \in DOMAIN dir \cup {name} |->
     IF n = name THEN [content |-> content, by |-> q] ELSE dir[n]]

\* Write::write_all through a handle at offset 0: the bytes replace the start of what
\* the file holds, and what lies beyond them stays
Overwritten(old, bytes) ==
  IF Len(old) > Len(bytes) THEN bytes \o SubSeq(old, Len(bytes) + 1, Len(old)) ELSE bytes

\* nfe.rs:1347-1352: File::create makes the file, or empties the one of that name
SaveCreate(q) ==
  /\ pc[q] = "save_create"
  /\ \E random \in 0..MaxRandom, ok \in BOOLEAN :
       LET name == TempFileName(random)
       IN  /\ Log(q, <<Ev("persist", "File::create", ok)>>)
           /\ IF ok
              THEN /\ files' = WithFile(files, name, <<>>, q)
                   /\ locals' = [locals EXCEPT ![q].path = name]
                   /\ Goto(q, "save_write")
              ELSE /\ Return(q, Err("Falha ao criar arquivo DANFE: {}", <<>>))
                   /\ UNCHANGED files
  /\ UNCHANGED <<args, pfx_bytes, posts, system_store, fn>>

\* A faulty variant: the path is returned without the text being written.
SaveWrite_NoContent(q) ==
  /\ pc[q] = "save_write"
  /\ Log(q, <<Ev("persist", "write_all", TRUE)>>)
  /\ Return(q, Ok(locals[q].path))
  /\ UNCHANGED <<args, pfx_bytes, posts, files, system_store, fn>>

\* nfe.rs:1353-1356 and 128-130: the text is written and the path returned
SaveWrite(q) ==
  /\ pc[q] = "save_write"
  /\ \E ok \in BOOLEAN :
       /\ Log(q, <<Ev("persist", "write_all", ok)>>)
       /\ IF ok
          THEN /\ files' = WithFile(files, locals[q].path,
                                    Overwritten(files[locals[q].path].content,
                                                locals[q].html), q)
               /\ Return(q, Ok(locals[q].path))
          ELSE /\ Return(q, Err("Falha ao escrever arquivo DANFE: {}", <<>>))
               /\ UNCHANGED files
  /\ UNCHANGED <<args, pfx_bytes, posts, system_store, fn>>

Step(q) ==
  \/ Invoke(q)
  \/ ExportCert(q)
  \/ CheckCnpj(q)
  \/ TlsIdentity(q)
  \/ BuildClient(q)
  \/ Send(q)
  \/ Respond(q)
  \/ ReadBody(q)
  \/ StatusStep(q)
  \/ Parse(q)
  \/ Render(q)
  \/ SaveCreate(q)
  \/ SaveWrite(q)

Next == \E q \in Queries : Step(q)

Spec == Init /\ [][Next]_vars


\* ------------------------------------------- the functions on their own

\* Bounds of the inputs: how far the lengths of the keys stray from AccessKeyLen
\* and those of the bodies from PreviewLimit
KeySlack == 1

PreviewSlack == 1

\* A key of n digits whose character at position p, if any, is c
KeyOf(n, p, c) == [i \in 1..n |-> IF i = p THEN c ELSE DigitChars[(i % 10) + 1]]

KeyLens == {0, AccessKeyLen \div 2} \cup ((AccessKeyLen - KeySlack)..(AccessKeyLen + KeySlack))

\* Characters that are not ASCII digits: a letter, a blank, signs, and two
\* multi-byte characters, the second a digit of another script
NonDigits == {"a", " ", "+", "-", "U+00E9", "U+0663"}

KeyInputs ==
  {KeyOf(n, 0, "0") : n \in KeyLens}
  \cup {KeyOf(n, p, c) : n \in KeyLens, p \in {1, 2, 3, AccessKeyLen \div 2, AccessKeyLen},
                        c \in NonDigits}
  \cup {[i \in 1..(AccessKeyLen \div 2) |-> "U+0663"]}

\* Response bodies for the decoder: those of the exchange, a body with payload
\* blocks and no status, and statuses that only resemble the sentinel
BodyNoStatus ==
  <<"<", "r", "e", "t", "D", "i", "s", "t", "D", "F", "e", "I", "n", "t", ">", "<", "d", "o", "c", "Z", "i", "p", " ", "N", "S", "U", "=", "\"", "2", "\"", " ", "s", "c", "h", "e", "m", "a", "=", "\"", "p", "r", "o", "c", "N", "F", "e", "_", "v", "4", ".", "0", "0", ".", "x", "s", "d", "\"", ">", "H", "4", "s", "I", "A", "A", "A", "A", "<", "/", "d", "o", "c", "Z", "i", "p", ">", "<", "/", "r", "e", "t", "D", "i", "s", "t", "D", "F", "e", "I", "n", "t", ">">>

Body1380 ==
  <<"<", "r", "e", "t", "D", "i", "s", "t", "D", "F", "e", "I", "n", "t", ">", "<", "c", "S", "t", "a", "t", ">", "1", "3", "8", "0", "<", "/", "c", "S", "t", "a", "t", ">", "<", "x", "M", "o", "t", "i", "v", "o", ">", "x", "<", "/", "x", "M", "o", "t", "i", "v", "o", ">">>
  \o <<"<", "d", "o", "c", "Z", "i", "p", " ", "N", "S", "U", "=", "\"", "2", "\"", " ", "s", "c", "h", "e", "m", "a", "=", "\"", "p", "r", "o", "c", "N", "F", "e", "_", "v", "4", ".", "0", "0", ".", "x", "s", "d", "\"", ">", "H", "4", "s", "I", "A", "A", "A", "A", "<", "/", "d", "o", "c", "Z", "i", "p", ">", "<", "/", "r", "e", "t", "D", "i", "s", "t", "D", "F", "e", "I", "n", "t", ">">>

Body138Junk ==
  <<"<", "r", "e", "t", "D", "i", "s", "t", "D", "F", "e", "I", "n", "t", ">", "<", "c", "S", "t", "a", "t", ">", "1", "3", "8", "<", "/", "c", "S", "t", "a", "t", ">", "<", "x", "M", "o", "t", "i", "v", "o", ">", "o", "k", "<", "/", "x", "M", "o", "t", "i", "v", "o", ">">>
  \o <<"<", "d", "o", "c", "Z", "i", "p", " ", "N", "S", "U", "=", "\"", "1", "\"", " ", "s", "c", "h", "e", "m", "a", "=", "\"", "p", "r", "o", "c", "N", "F", "e", "_", "v", "4", ".", "0", "0", ".", "x", "s", "d", "\"", ">", "!", "!", "!", "!", "<", "/", "d", "o", "c", "Z", "i", "p", ">", "<", "/", "r", "e", "t", "D", "i", "s", "t", "D", "F", "e", "I", "n", "t", ">">>

ParseInputs == Bodies \cup {BodyNoStatus, Body1380, Body138Junk}

\* A body of n characters "a" whose character at position w, if any, takes two bytes
BodyOf(n, w) == [i \in 1..n |-> IF i = w THEN "U+00E9" ELSE "a"]

BodyLens == {0, 3} \cup ((PreviewLimit - PreviewSlack)..(PreviewLimit + PreviewSlack + 1))

StatusInputs ==
  {<<st, BodyOf(n, w)>> : st \in {200, 404, 503}, n \in BodyLens,
                          w \in {0, 2, PreviewLimit - 1, PreviewLimit, PreviewLimit + 1}}

FnCall(op, in) == [op |-> op, in |-> in, out |-> Pending, applied |-> FALSE]

\* The fingerprint of a certificate as text: in upper or lower case, the bytes
\* separated by colons or not
ThumbForm(cert, lower, colon) ==
  LET joined == Join([i \in 1..Len(cert.hash) |-> HexByte(cert.hash[i])],
                     IF colon THEN <<":">> ELSE <<>>)
  IN  IF lower THEN [i \in 1..Len(joined) |-> to_ascii_lowercase(joined[i])] ELSE joined

\* Fingerprints for the lookup: every form of every certificate of the store, one
\* in mixed case, and fingerprints of no certificate
ThumbInputs ==
  {ThumbForm(InitialStore[i], l, c) : i \in 1..Len(InitialStore), l \in BOOLEAN, c \in BOOLEAN}
  \cup {<<"a", "B", ":", "1", "2">>, <<"A", "B", ":", "1", "3">>, <<"A", "B", ":", "1", "2", ":", "0", "0">>, <<"A", "B">>, <<"A", "B", " ", "1", "2">>, <<>>}

\* The platform faults of the export, with the cause of a failing first call
ExportInputs ==
  {<<t, "none">> : t \in ThumbInputs}
  \cup {<<ThumbForm(InitialStore[i], FALSE, TRUE), f>> :
          i \in 1..Len(InitialStore), f \in ExportFaults \cup {FaultNotExportable}}
  \cup {<<<<"A", "B", ":", "1", "3">>, f>> : f \in ExportFaults \cup {FaultNotExportable}}

\* One function and one input are drawn; no query runs
\* Texts that carry no tag of a document
DocUnrecognizable == {<<>>, <<"n", "o", "t", " ", "a", " ", "d", "o", "c", "u", "m", "e", "n", "t">>, <<"<", "h", "t", "m", "l", ">", "<", "b", "o", "d", "y", ">", "b", "u", "s", "y", "<", "/", "b", "o", "d", "y", ">", "<", "/", "h", "t", "m", "l", ">">>}

DocInputs == {DocOf(shape) : shape \in DocShapes} \cup DocUnrecognizable

\* Models for generate_danfe_html: two 44-digit keys, tax identifiers of 14, 11 and
\* other lengths, in digits and not, and issue dates
KeyReversed == [i \in 1..AccessKeyLen |-> DigitChars[((AccessKeyLen + 1 - i) % 10) + 1]]

IdCnpj == <<"1", "2", "3", "4", "5", "6", "7", "8", "0", "0", "0", "1", "9", "0">>

IdCpf == <<"9", "8", "7", "6", "5", "4", "3", "2", "1", "0", "0">>

IdInputs ==
  {IdCnpj, IdCpf, <<"1", "2", "3", "4", "5", "6">>, <<>>, <<"A", "B", ".", "3", "4", "5", "6", "7", "8", "/", "0", "0", "0", "1">>,
   <<"1", "U+00E9">> \o <<"3", "4", "5", "6", "7", "8", "9", "0", "1", "2", "3">>}

DateInputs == {<<"2", "0", "2", "4", "-", "0", "1", "-", "0", "2", "T", "1", "0", ":", "0", "0", ":", "0", "0", "-", "0", "3", ":", "0", "0">>, <<"0", "2", "/", "0", "1", "/", "2", "0", "2", "4">>, <<"2", "0", "2", "4", "-", "0", "1", "-", "0">> \o <<"U+00E9">>}

ModelOf(chave, cnpj_emit, cnpj_dest, data_emissao) ==
  [DefaultNfeData EXCEPT !.chave = chave, !.data_emissao = data_emissao,
                         !.emitente.cnpj_cpf = cnpj_emit,
                         !.destinatario.cnpj_cpf = cnpj_dest]

RenderInputs ==
  {ModelOf(k, e, d, t) : k \in {KeyValid, KeyReversed}, e \in IdInputs, d \in IdInputs,
                         t \in DateInputs}

\* Responses built from a status code and a list of payload blocks, each a schema
\* identifier and a base64 text
SchemaFull == <<"p", "r", "o", "c", "N", "F", "e", "_", "v", "4", ".", "0", "0", ".", "x", "s", "d">>

SchemaSummary == <<"r", "e", "s", "N", "F", "e", "_", "v", "1", ".", "0", "1", ".", "x", "s", "d">>

DocZipBlock(nsu, schema, b64) ==
  Concat(<<<<"<", "d", "o", "c", "Z", "i", "p", " ", "N", "S", "U", "=", "\"">>, U32ToString(nsu), <<"\"", " ", "s", "c", "h", "e", "m", "a", "=", "\"">>, schema, <<"\"", ">">>,
           b64, <<"<", "/", "d", "o", "c", "Z", "i", "p", ">">>>>)

ResponseOf(cstat, blocks) ==
  Concat(<<<<"<", "r", "e", "t", "D", "i", "s", "t", "D", "F", "e", "I", "n", "t", ">", "<", "c", "S", "t", "a", "t", ">">>, cstat, <<"<", "/", "c", "S", "t", "a", "t", ">", "<", "x", "M", "o", "t", "i", "v", "o", ">", "m", "<", "/", "x", "M", "o", "t", "i", "v", "o", ">">>,
           Concat([i \in 1..Len(blocks) |-> DocZipBlock(i, blocks[i][1], blocks[i][2])]),
           <<"<", "/", "r", "e", "t", "D", "i", "s", "t", "D", "F", "e", "I", "n", "t", ">">>>>)

\* The response that carries the document of a shape as its full-document payload,
\* alone or after a summary payload
FullResponse(shape, summary) ==
  ResponseOf(SuccessCStat,
             (IF summary THEN <<<<SchemaSummary, B64Zlib>>>> ELSE <<>>)
             \o <<<<SchemaFull, B64Doc(shape)>>>>)

PipelineInputs == {FullResponse(shape, summary) : shape \in DocShapes, summary \in BOOLEAN}

\* Responses with up to MaxBlocks payload blocks, each under the full-document or the
\* summary schema; the block at position i carries a document that has the i-th of
\* the optional blocks and no other
MaxBlocks == 3

SchemaLists ==
  UNION {[1..n -> {SchemaFull, SchemaSummary}] : n \in 0..MaxBlocks}

PosShape(i) ==
  [emit |-> i = 1, dest |-> i = 2, total |-> i = 3, prot |-> i = 4, items |-> 0]

SelectionBody(schemas) ==
  ResponseOf(SuccessCStat, [i \in 1..Len(schemas) |-> <<schemas[i], B64Doc(PosShape(i))>>])

SelectionInputs == {SelectionBody(schemas) : schemas \in SchemaLists}

\* Payload bytes for decompress_doc_zip: each decoder fails on them, reads them to the
\* empty text, or reads them to a text of its own
CodecResults(text) == {DecodeFails, Decoded(<<>>), Decoded(text)}

BlobInputs ==
  {Blob(g, d, z) : g \in CodecResults(<<"<", "g", "z", "/", ">">>), d \in CodecResults(<<"<", "r", "a", "w", "/", ">">>),
                   z \in CodecResults(<<"<", "z", "l", "i", "b", "/", ">">>)}

\* Subject names for extract_cnpj_from_cert: the simple display name and the
\* distinguished name of a certificate
NameInputs ==
  {<<"A", "C", "M", "E", " ", "L", "T", "D", "A", ":", "1", "2", "3", "4", "5", "6", "7", "8", "0", "0", "0", "1", "9", "0">>, <<"A", "C", "M", "E", " ", "L", "T", "D", "A">>, <<>>, <<"B", "O", "B", ":", "1", "2", "3", "4", "5", "6", "7", "8", "9", "0", "1">>,
   <<"C", "N", "=", "A", "C", "M", "E", " ", "L", "T", "D", "A", " ", "1", "2", "3", "4", "5", "6", "7", "8", "0", "0", "0", "1", "9", "0", ",", " ", "O", "=", "I", "C", "P", "-", "B", "r", "a", "s", "i", "l">>, <<"A", "C", "M", "E", ":", " ", "1", "2", "3", "4", "5", "6", "7", "8", "0", "0", "0", "1", "9", "0", " ">>,
   <<"A", "C", "M", "E", ":", "1", "2", "3", "4", "5", "6", "7", "8", "0", "0", "0", "1", "9", "0", "1">>, <<"9", "8", "7", "6", "5", "4", "3", "2", "0", "0", "0", "1", "1", "0", ":", "A", "C", "M", "E", ":", "1", "2", "3", "4", "5", "6", "7", "8", "0", "0", "0", "1", "9", "0">>,
   <<"O", "U", "=", "1", "1", "2", "2", "2", "3", "3", "3", "0", "0", "0", "1", "4", "4", ",", " ", "C", "N", "=", "A", "C", "M", "E", " ", "L", "T", "D", "A", ":", "1", "2", "3", "4", "5", "6", "7", "8", "0", "0", "0", "1", "9", "0", ",", " ", "O", "=", "I", "C", "P", "-", "B", "r", "a", "s", "i", "l">>}

SubjectInputs == [simple : NameInputs, rdn : NameInputs]

\* Identifiers for format_cnpj_cpf: those of the models, one of 14 characters of which
\* one is wide, and one of 11 bytes that is not 11 characters
FormatInputs ==
  IdInputs \cup {<<"1", "2", "3", "4", "5", "6", "7", "8", "9", "0", "1", "2", "3">> \o <<"U+00E9">>, <<"1", "2", "3", "4", "5", "6", "7", "8", "9">> \o <<"U+0663">>,
                 <<"1", "2", "3", "4", "5", "6", "7", "8", "9", "0", "1", "2", "3", "4", "5">>}

\* Issue dates for the date formatting: those of the models, and texts of ten
\* characters and more or fewer that are split by '-' in other ways
IssueDateInputs ==
  DateInputs \cup {<<"2", "0", "2", "4", "-", "0", "1", "-", "0", "2">>, <<"2", "0", "2", "4", "-", "0", "1">>, <<>>, <<"0", "2", "-", "0", "1", "-", "2", "0", "2", "4">>, <<"2", "0", "2", "4", "0", "1", "0", "2", "T", "1", "0", ":", "0", "0">>,
                   <<"2", "0", "2", "4", "-", "1", "-", "2", "T", "1", "0", ":", "0", "0">>, <<"2", "0", "2", "4", "-", "0", "1", "-", "0", "2", "-", "0", "3">>}

\* Documents for parse_products: line-item blocks with the nItem attribute given, with
\* or without a product block
DetBlock(n_item, name, prod) ==
  Concat(<<<<"<", "d", "e", "t", " ", "n", "I", "t", "e", "m", "=", "\"">>, n_item, <<"\"", ">">>,
           IF prod THEN <<"<", "p", "r", "o", "d", ">", "<", "x", "P", "r", "o", "d", ">">> \o name \o <<"<", "/", "x", "P", "r", "o", "d", ">", "<", "/", "p", "r", "o", "d", ">">> ELSE <<>>,
           <<"<", "i", "m", "p", "o", "s", "t", "o", "/", ">", "<", "/", "d", "e", "t", ">">>>>)

ItemAttrs == {<<"1">>, <<"2">>, <<"0">>, <<"x">>}

DetInputs ==
  {<<>>}
  \cup {DetBlock(a, <<"F", "I", "R", "S", "T">>, TRUE) : a \in ItemAttrs}
  \cup {DetBlock(a, <<"F", "I", "R", "S", "T">>, p) \o DetBlock(b, <<"S", "E", "C", "O", "N", "D">>, TRUE) :
          a \in ItemAttrs, b \in ItemAttrs, p \in BOOLEAN}

\* Blocks and tags for extract_tag_content: a tag alone, absent, and after or before
\* an element whose name begins with it
TagInputs ==
  {<<<<"<", "I", "C", "M", "S", "T", "o", "t", ">", "<", "v", "B", "C", ">", "2", ".", "0", "0", "<", "/", "v", "B", "C", ">", "<", "v", "B", "C", "S", "T", ">", "1", ".", "0", "0", "<", "/", "v", "B", "C", "S", "T", ">", "<", "/", "I", "C", "M", "S", "T", "o", "t", ">">>, <<"v", "B", "C">>>>,
   <<<<"<", "I", "C", "M", "S", "T", "o", "t", ">", "<", "v", "B", "C", "S", "T", ">", "1", ".", "0", "0", "<", "/", "v", "B", "C", "S", "T", ">", "<", "v", "B", "C", ">", "2", ".", "0", "0", "<", "/", "v", "B", "C", ">", "<", "/", "I", "C", "M", "S", "T", "o", "t", ">">>, <<"v", "B", "C">>>>,
   <<<<"<", "I", "C", "M", "S", "T", "o", "t", ">", "<", "v", "I", "C", "M", "S", "D", "e", "s", "o", "n", ">", "3", ".", "0", "0", "<", "/", "v", "I", "C", "M", "S", "D", "e", "s", "o", "n", ">", "<", "v", "I", "C", "M", "S", ">", "4", ".", "0", "0", "<", "/", "v", "I", "C", "M", "S", ">", "<", "/", "I", "C", "M", "S", "T", "o", "t", ">">>, <<"v", "I", "C", "M", "S">>>>,
   <<<<"<", "e", "m", "i", "t", ">", "<", "I", "E", "S", "T", ">", "5", "5", "<", "/", "I", "E", "S", "T", ">", "<", "I", "E", ">", "1", "1", "<", "/", "I", "E", ">", "<", "/", "e", "m", "i", "t", ">">>, <<"I", "E">>>>,
   <<<<"<", "e", "m", "i", "t", ">", "<", "I", "E", "S", "T", ">", "5", "5", "<", "/", "I", "E", "S", "T", ">", "<", "/", "e", "m", "i", "t", ">">>, <<"I", "E">>>>,
   <<<<"<", "e", "m", "i", "t", ">", "<", "I", "E", ">", "1", "1", "<", "/", "I", "E", ">", "<", "I", "E", "S", "T", ">", "5", "5", "<", "/", "I", "E", "S", "T", ">", "<", "/", "e", "m", "i", "t", ">">>, <<"I", "E">>>>,
   <<<<"<", "e", "m", "i", "t", ">", "<", "x", "N", "o", "m", "e", ">", "A", "C", "M", "E", "<", "/", "x", "N", "o", "m", "e", ">", "<", "/", "e", "m", "i", "t", ">">>, <<"I", "E">>>>,
   <<<<"<", "e", "m", "i", "t", ">", "<", "I", "E", " ", "i", "d", "=", "\"", "a", "\"", ">", "1", "1", "<", "/", "I", "E", ">", "<", "/", "e", "m", "i", "t", ">">>, <<"I", "E">>>>,
   <<<<"<", "e", "m", "i", "t", ">", "<", "I", "E", ">", "1", "1">>, <<"I", "E">>>>,
   <<<<>>, <<"I", "E">>>>}

\* nfe.rs:174: the bytes of the key that go into the file name
DownloadPrefixLen == 20

\* nfe.rs:174: "DANFE_{}.html" on the first bytes of the key; Panic when the cut falls
\* inside a multi-byte character
DownloadName(access_key) ==
  LET n == IF ByteLen(access_key) < DownloadPrefixLen THEN ByteLen(access_key)
           ELSE DownloadPrefixLen
  IN  IF ~is_char_boundary(access_key, n) THEN Panic
      ELSE Ok(Concat(<<<<"D", "A", "N", "F", "E", "_">>, ByteSlice(access_key, 0, n), <<".", "h", "t", "m", "l">>>>))

\* nfe.rs:164-179: the downloads folder after the call and what the call returns.
\* std::fs::copy writes the content of the source over the destination, and fails
\* when the source does not exist.
download_danfe(downloads, source, access_key) ==
  LET name == DownloadName(access_key)
  IN  IF ~IsOk(name) THEN [dir |-> downloads, res |-> Panic]
      ELSE IF ~source.some
      THEN [dir |-> downloads, res |-> Err("Falha ao salvar arquivo: {}", <<>>)]
      ELSE [dir |-> (name.val :> source.val) @@ downloads, res |-> Ok(name.val)]

\* Two downloads in turn into an empty folder: artifacts of two contents, one
\* missing, under keys that differ before and after their twentieth digit
KeyLate == [KeyValid EXCEPT ![AccessKeyLen] = "9"]

KeyEarly == [KeyValid EXCEPT ![3] = "9"]

DownloadRequests ==
  [source : {Some(<<"<", "h", "t", "m", "l", ">", "A", "<", "/", "h", "t", "m", "l", ">">>), Some(<<"<", "h", "t", "m", "l", ">", "B", "<", "/", "h", "t", "m", "l", ">">>), NoneStr},
   access_key : {KeyValid, KeyLate, KeyEarly, <<"3", "5">>}]

DownloadInputs == [1..2 -> DownloadRequests]

EmptyFolder == [n \in {} |-> <<>>]

\* main.rs:28: the age, in seconds, beyond which an output file is removed
DaySeconds == 86400

\* str::starts_with, str::ends_with
starts_with(s, pat) == MatchAt(s, pat, 0)

ends_with(s, pat) == Len(pat) <= Len(s) /\ MatchAt(s, pat, Len(s) - Len(pat))

\* main.rs:18 and 24
IsOutputName(filename) ==
  /\ starts_with(filename, <<"d", "a", "n", "f", "e", "_">>)
  /\ ends_with(filename, <<".", "h", "t", "m", "l">>) \/ ends_with(filename, <<".", "x", "m", "l">>)

\* main.rs:24-30: the entry is an output file, the time since its modification can be
\* computed (it is not in the future) and exceeds a day, and fs::remove_file, whose
\* result is dropped, has removed it
Swept(filename, entry) ==
  /\ IsOutputName(filename)
  /\ entry.age >= 0
  /\ entry.age > DaySeconds
  /\ entry.removable

\* A faulty variant: output files are removed whatever their age.
clean_old_files_AnyAge(temp_dir) ==
  [n \in {f \in DOMAIN temp_dir : ~(IsOutputName(f) /\ temp_dir[f].removable)} |->
     temp_dir[n]]

\* main.rs:17-38: the temporary directory after the sweep
clean_old_files(temp_dir) ==
  [n \in {f \in DOMAIN temp_dir : ~Swept(f, temp_dir[f])} |-> temp_dir[n]]

\* Temporary directories of two entries: names that are and are not those of output
\* files, ages around a day and in the future, and entries that the file system lets
\* or does not let remove (one in use, a directory)
SweepNames ==
  {<<"d", "a", "n", "f", "e", "_", "1", ".", "h", "t", "m", "l">>, <<"d", "a", "n", "f", "e", "_", "2", ".", "x", "m", "l">>, <<"d", "a", "n", "f", "e", "_", ".", "h", "t", "m", "l">>, <<"d", "a", "n", "f", "e", "_", "3", ".", "t", "x", "t">>, <<"r", "e", "p", "o", "r", "t", ".", "h", "t", "m", "l">>,
   <<"x", "d", "a", "n", "f", "e", "_", "1", ".", "h", "t", "m", "l">>, <<"D", "a", "n", "f", "e", "_", "1", ".", "h", "t", "m", "l">>, <<"d", "a", "n", "f", "e", "_", "1", ".", "h", "t", "m", "l", ".", "b", "a", "k">>}

SweepAges == {-5, 0, DaySeconds - 1, DaySeconds, DaySeconds + 1, 2 * DaySeconds}

SweepEntries == [age : SweepAges, removable : BOOLEAN, content : {<<"a">>}]

SweepInputs ==
  {(m1 :> e1) @@ (m2 :> e2) :
     m1 \in {<<"d", "a", "n", "f", "e", "_", "1", ".", "h", "t", "m", "l">>, <<"d", "a", "n", "f", "e", "_", "2", ".", "x", "m", "l">>, <<"r", "e", "p", "o", "r", "t", ".", "h", "t", "m", "l">>}, m2 \in SweepNames,
     e1 \in SweepEntries, e2 \in {e \in SweepEntries : e.removable}}

\* Response texts for extract_all_doc_zips: whole responses, and texts that end inside
\* an opening tag, shortly or long after its name, or before the closing tag
Padding(n) == [i \in 1..n |-> "a"]

ScanInputs ==
  SelectionInputs
  \cup {<<"<", "r", "e", "t", "D", "i", "s", "t", "D", "F", "e", "I", "n", "t", ">", "<", "c", "S", "t", "a", "t", ">", "1", "3", "8", "<", "/", "c", "S", "t", "a", "t", ">", "<", "d", "o", "c", "Z", "i", "p", " ", "N", "S", "U", "=", "\"", "1", "\"", " ", "s", "c", "h", "e", "m", "a", "=", "\"", "p", "r", "o", "c">>,
        <<"<", "d", "o", "c", "Z", "i", "p">>,
        <<"<", "d", "o", "c", "Z", "i", "p", " ", "N", "S", "U", "=", "\"">> \o Padding(TagSectionMax + 5),
        <<"<", "d", "o", "c", "Z", "i", "p", " ", "N", "S", "U", "=", "\"", "1", "\"", " ", "s", "c", "h", "e", "m", "a", "=", "\"", "p", "r", "o", "c", "N", "F", "e", "_", "v", "4", ".", "0", "0", ".", "x", "s", "d", "\"", ">", "H", "4", "s", "I", "A", "A", "A", "A">>,
        <<"<", "d", "o", "c", "Z", "i", "p", " ", "N", "S", "U", "=", "\"", "1", "\"", ">", "H", "4", "s", "I", "A", "A", "A", "A", "<", "/", "d", "o", "c", "Z", "i", "p", ">", "<", "d", "o", "c", "Z", "i", "p", " ", "N", "S", "U", "=", "\"", "2", "\"", " ", "s", "c", "h", "e", "m", "a", "=", "\"", "p", "r", "o", "c", "N", "F", "e", "_", "v", "4", ".", "0", "0", ".", "x", "s", "d", "\"", ">", "H", "4", "s", "I">>,
        <<"<", "d", "o", "c", "Z", "i", "p", " ", "N", "S", "U", "=", "\"", "1", "\"", ">", "H", "4", "s", "I", "A", "A", "A", "A", "<", "/", "d", "o", "c", "Z", "i", "p", ">">>}

\* ------------------------------------------------ portal fallback script

\* What the script finds in the page: the key field by its id, by its name or
\* class, or not at all; the captcha response, missing or empty, of at most ten
\* characters, or longer; the submit button by its id, by its value, or not at all.
PortalDoms ==
  [field : {"by_id", "by_name", "absent"},
   token : {"none", "short", "long"},
   button : {"by_id", "by_value", "absent"}]

\* nfe.rs:216-220 and the timers of the page, in milliseconds: the script before
\* init has run.  writes and clicks count what the script did to the page, and
\* observed records that a poll has seen a captcha response.
PortalLoading(dom) ==
  [page |-> "loading", now |-> 0, FILLED |-> FALSE, SUBMITTED |-> FALSE,
   fills |-> {}, iv |-> {}, click |-> {}, dom |-> dom,
   writes |-> 0, clicks |-> 0, observed |-> FALSE]

\* nfe.rs:226-228
isFormPage(dom) == dom.field # "absent"

\* nfe.rs:232-246 without the guard on FILLED
fillKey_Unguarded(st) ==
  IF st.dom.field # "absent"
  THEN [st EXCEPT !.writes = @ + 1, !.FILLED = TRUE]
  ELSE st

\* nfe.rs:232-246
fillKey(st) ==
  IF st.FILLED THEN st
  ELSE IF st.dom.field # "absent"
  THEN [st EXCEPT !.writes = @ + 1, !.FILLED = TRUE]
  ELSE st

\* nfe.rs:248-253
captchaDone(dom) == dom.token = "long"

\* nfe.rs:262
ClickDelay == 400

\* nfe.rs:255-263
clickContinuar(st) ==
  IF st.SUBMITTED THEN st
  ELSE [st EXCEPT !.SUBMITTED = TRUE, !.click = {st.now + ClickDelay}]

\* nfe.rs:258-262: the callback of the timeout set by clickContinuar
ClickTimeout(st) ==
  IF st.dom.button # "absent"
  THEN [st EXCEPT !.clicks = @ + 1, !.click = {}]
  ELSE [st EXCEPT !.click = {}]

\* nfe.rs:267-269
FillDelays == {500, 1500, 3000}

\* nfe.rs:272
PollPeriod == 500

\* nfe.rs:265-273
setupForm(st) ==
  LET filled == fillKey(st)
  IN  [filled EXCEPT !.fills = {st.now + d : d \in FillDelays},
                     !.iv = {st.now + PollPeriod}]

\* nfe.rs:270-272: the callback of the interval, which stays set unless cleared
PollCaptcha(st) ==
  IF captchaDone(st.dom)
  THEN [clickContinuar(st) EXCEPT !.iv = {}, !.observed = TRUE]
  ELSE [st EXCEPT !.iv = {st.now + PollPeriod}]

\* nfe.rs:518-521: the polling of a result page uses none of the form's flags
\* and timers
PortalInit(st) ==
  IF isFormPage(st.dom)
  THEN setupForm([st EXCEPT !.page = "form"])
  ELSE [st EXCEPT !.page = "result"]

\* The timers of the page are followed up to this time
MaxPortalTime == 3500

\* The timers that are set, and a timer that is due before every other
PortalDue(st) == st.fills \cup st.iv \cup st.click

PortalEarliest(st, t) ==
  /\ t \in PortalDue(st)
  /\ t <= MaxPortalTime
  /\ \A u \in PortalDue(st) : t <= u

InitFn ==
  /\ InitQueries
  /\ \/ \E k \in KeyInputs : fn = FnCall("ValidateAccessKey", k)
     \/ \E b \in ParseInputs \cup SelectionInputs : fn = FnCall("parse_sefaz_response", b)
     \/ \E r \in StatusInputs : fn = FnCall("CheckStatus", r)
     \/ \E e \in ExportInputs : fn = FnCall("export_cert_pfx", e)
     \/ \E d \in DocInputs : fn = FnCall("parse_nfe_xml", d)
     \/ \E d \in RenderInputs : fn = FnCall("generate_danfe_html", d)
     \/ \E b \in PipelineInputs : fn = FnCall("parse_and_render", b)
     \/ \E b \in BlobInputs : fn = FnCall("decompress_doc_zip", b)
     \/ \E c \in SubjectInputs : fn = FnCall("extract_cnpj_from_cert", c)
     \/ \E v \in FormatInputs : fn = FnCall("format_cnpj_cpf", v)
     \/ \E t \in IssueDateInputs : fn = FnCall("FormatDataEmissao", t)
     \/ \E d \in DetInputs : fn = FnCall("parse_products", d)
     \/ \E x \in TagInputs : fn = FnCall("extract_tag_content", x)
     \/ \E r \in DownloadInputs :
          fn = [FnCall("download_danfe", r) EXCEPT
                  !.out = [dir |-> EmptyFolder, results |-> <<>>]]
     \/ \E d \in SweepInputs : fn = FnCall("clean_old_files", d)
     \/ \E x \in ScanInputs : fn = FnCall("extract_all_doc_zips", x)
     \/ \E d \in PortalDoms :
          fn = [FnCall("portal_init_script", d) EXCEPT !.out = PortalLoading(d)]

Applied(out) == fn' = [fn EXCEPT !.out = out, !.applied = TRUE]

FnValidateAccessKey ==
  /\ fn.op = "ValidateAccessKey" /\ ~fn.applied
  /\ Applied(ValidateAccessKey(fn.in))
  /\ UNCHANGED qvars

FnParseSefazResponse ==
  /\ fn.op = "parse_sefaz_response" /\ ~fn.applied
  /\ Applied(parse_sefaz_response(fn.in, KeyValid))
  /\ UNCHANGED qvars

FnCheckStatus ==
  /\ fn.op = "CheckStatus" /\ ~fn.applied
  /\ Applied(CheckStatus(fn.in[1], fn.in[2]))
  /\ UNCHANGED qvars

\* export_cert_pfx on the store with a fingerprint and a platform fault
FnExportCertPfx ==
  /\ fn.op = "export_cert_pfx" /\ ~fn.applied
  /\ Applied(export_cert_pfx(system_store, fn.in[1], fn.in[2]))
  /\ UNCHANGED qvars

\* parse_nfe_xml on a decoded text
FnParseNfeXml ==
  /\ fn.op = "parse_nfe_xml" /\ ~fn.applied
  /\ Applied(parse_nfe_xml(fn.in, KeyValid))
  /\ UNCHANGED qvars

\* generate_danfe_html on a model
FnGenerateDanfeHtml ==
  /\ fn.op = "generate_danfe_html" /\ ~fn.applied
  /\ Applied(generate_danfe_html(fn.in))
  /\ UNCHANGED qvars

\* nfe.rs:122-125: the response body is decoded into a model and the model rendered
ParseAndRender(body, access_key) ==
  LET parsed == parse_sefaz_response(body, access_key).res
  IN  [nfe_data |-> parsed,
       html |-> IF IsOk(parsed) THEN generate_danfe_html(parsed.val) ELSE parsed]

FnParseAndRender ==
  /\ fn.op = "parse_and_render" /\ ~fn.applied
  /\ Applied(ParseAndRender(fn.in, KeyValid))
  /\ UNCHANGED qvars

\* decompress_doc_zip on the bytes of a payload
FnDecompressDocZip ==
  /\ fn.op = "decompress_doc_zip" /\ ~fn.applied
  /\ Applied(decompress_doc_zip(fn.in))
  /\ UNCHANGED qvars

\* extract_cnpj_from_cert on the names of a certificate
FnExtractCnpjFromCert ==
  /\ fn.op = "extract_cnpj_from_cert" /\ ~fn.applied
  /\ Applied(extract_cnpj_from_cert(fn.in))
  /\ UNCHANGED qvars

\* format_cnpj_cpf on an identifier
FnFormatCnpjCpf ==
  /\ fn.op = "format_cnpj_cpf" /\ ~fn.applied
  /\ Applied(format_cnpj_cpf(fn.in))
  /\ UNCHANGED qvars

\* The issue date formatting of generate_danfe_html on an issue date
FnFormatDataEmissao ==
  /\ fn.op = "FormatDataEmissao" /\ ~fn.applied
  /\ Applied(FormatDataEmissao(fn.in))
  /\ UNCHANGED qvars

\* parse_products on the text of a document
FnParseProducts ==
  /\ fn.op = "parse_products" /\ ~fn.applied
  /\ Applied(parse_products(fn.in))
  /\ UNCHANGED qvars

\* extract_tag_content on a block and a tag
FnExtractTagContent ==
  /\ fn.op = "extract_tag_content" /\ ~fn.applied
  /\ Applied(extract_tag_content(fn.in[1], fn.in[2]))
  /\ UNCHANGED qvars

\* download_danfe on the next request, in the folder the earlier call has left
FnDownloadDanfe ==
  /\ fn.op = "download_danfe" /\ ~fn.applied
  /\ LET k == Len(fn.out.results) + 1
         r == download_danfe(fn.out.dir, fn.in[k].source, fn.in[k].access_key)
     IN  fn' = [fn EXCEPT !.out = [dir |-> r.dir, results |-> Append(@.results, r.res)],
                          !.applied = (k = Len(fn.in))]
  /\ UNCHANGED qvars

\* clean_old_files on a temporary directory
FnCleanOldFiles ==
  /\ fn.op = "clean_old_files" /\ ~fn.applied
  /\ Applied(clean_old_files(fn.in))
  /\ UNCHANGED qvars

\* extract_all_doc_zips on a response text
FnExtractAllDocZips ==
  /\ fn.op = "extract_all_doc_zips" /\ ~fn.applied
  /\ Applied(extract_all_doc_zips(fn.in))
  /\ UNCHANGED qvars

\* nfe.rs:523-524: init runs once in a page, at once or when the document has
\* loaded
FnPortalInit ==
  /\ fn.op = "portal_init_script" /\ ~fn.applied
  /\ Applied(PortalInit(fn.out))
  /\ UNCHANGED qvars

\* One of the timeouts of fillKey fires.  Timers due at the same time fire in
\* either order.
FnPortalFill ==
  /\ fn.op = "portal_init_script"
  /\ \E t \in fn.out.fills :
       /\ PortalEarliest(fn.out, t)
       /\ fn' = [fn EXCEPT !.out = fillKey([@ EXCEPT !.now = t, !.fills = @ \ {t}])]
  /\ UNCHANGED qvars

\* The interval of setupForm fires
FnPortalPoll ==
  /\ fn.op = "portal_init_script"
  /\ \E t \in fn.out.iv :
       /\ PortalEarliest(fn.out, t)
       /\ fn' = [fn EXCEPT !.out = PollCaptcha([@ EXCEPT !.now = t])]
  /\ UNCHANGED qvars

\* The timeout of clickContinuar fires
FnPortalClick ==
  /\ fn.op = "portal_init_script"
  /\ \E t \in fn.out.click :
       /\ PortalEarliest(fn.out, t)
       /\ fn' = [fn EXCEPT !.out = ClickTimeout([@ EXCEPT !.now = t])]
  /\ UNCHANGED qvars

\* The page or its user changes what the script finds: the field or the button
\* appears or goes, the captcha is solved or its response expires
FnPortalPage ==
  /\ fn.op = "portal_init_script"
  /\ \E d \in PortalDoms \ {fn.out.dom} : fn' = [fn EXCEPT !.out.dom = d]
  /\ UNCHANGED qvars

NextFn ==
  \/ FnValidateAccessKey
  \/ FnParseSefazResponse
  \/ FnCheckStatus
  \/ FnExportCertPfx
  \/ FnParseNfeXml
  \/ FnGenerateDanfeHtml
  \/ FnParseAndRender
  \/ FnDecompressDocZip
  \/ FnExtractCnpjFromCert
  \/ FnFormatCnpjCpf
  \/ FnFormatDataEmissao
  \/ FnParseProducts
  \/ FnExtractTagContent
  \/ FnDownloadDanfe
  \/ FnCleanOldFiles
  \/ FnExtractAllDocZips
  \/ FnPortalInit
  \/ FnPortalFill
  \/ FnPortalPoll
  \/ FnPortalClick
  \/ FnPortalPage

SpecFn == InitFn /\ [][NextFn]_vars


\* ------------------------------------------------------------- claims

\* What the claims say of a query: the calls it has made, whether one failed, the
\* files it wrote last, and whether it has returned
CallsOf(q) == {trace[q][i].call : i \in 1..Len(trace[q])}

Succeeded(q, call) == \E i \in 1..Len(trace[q]) : trace[q][i].call = call /\ trace[q][i].ok

FilesBy(q) == {n \in DOMAIN files : files[n].by = q}

Returned(q) == pc[q] = "done"

\* find_cert_by_thumbprint_raw and extract_cnpj_from_cert on the store and the
\* fingerprints of the model, computed once
SelectTable ==
  Tabulated([t \in ThumbArgs |-> find_cert_by_thumbprint_raw(InitialStore, t)])

CnpjTable ==
  Tabulated([i \in 1..Len(InitialStore) |-> extract_cnpj_from_cert(InitialStore[i])])

\* The certificate the fingerprint of query q selects in the store (its index, or
\* None), and the tax identifier read from that certificate's subject
Selected(q) ==
  IF system_store = InitialStore THEN SelectTable[args[q].thumbprint]
  ELSE find_cert_by_thumbprint_raw(system_store, args[q].thumbprint)

SelectedCnpj(q) ==
  IF system_store = InitialStore THEN CnpjTable[Selected(q)]
  ELSE extract_cnpj_from_cert(system_store[Selected(q)])

AllDigits(s) == \A i \in 1..Len(s) : s[i] \in Digits

WellFormedKey(k) == Len(k) = 44 /\ AllDigits(k)

HexDigits == Digits \cup {"a", "b", "c", "d", "e", "f", "A", "B", "C", "D", "E", "F"}

\* Hex byte groups: "AB:CD:..."
WellFormedThumbprint(t) ==
  /\ t # <<>>
  /\ \A i \in 1..Len(Split(t, ":")) :
       Len(Split(t, ":")[i]) = 2 /\ \A k \in 1..2 : Split(t, ":")[i][k] \in HexDigits

HasSuffix(s, suffix) ==
  Len(s) >= Len(suffix) /\ SubSeq(s, Len(s) - Len(suffix) + 1, Len(s)) = suffix

\* "danfe_<digits>.html"
IsTempName(n) ==
  /\ Len(n) > 11
  /\ SubSeq(n, 1, 6) = <<"d", "a", "n", "f", "e", "_">>
  /\ HasSuffix(n, <<".", "h", "t", "m", "l">>)
  /\ AllDigits(SubSeq(n, 7, Len(n) - 5))

\* C1: key validation accepts a key if and only if it is exactly 44 characters long
\* and every character is an ASCII digit; every other key is rejected with the
\* validation error.
C1_KeyValidation ==
  (fn.op = "ValidateAccessKey" /\ fn.applied) =>
    /\ IsOk(fn.out) <=> WellFormedKey(fn.in)
    /\ ~IsOk(fn.out) => (fn.out.kind = "err" /\ fn.out.err = ErrAccessKey)

\* A 44-byte key of 22 two-byte characters has been rejected
C1_Witness ==
  /\ fn.op = "ValidateAccessKey" /\ fn.applied
  /\ Len(fn.in) = 22 /\ ByteLen(fn.in) = 44
  /\ fn.out.kind = "err"

\* C2: on every exit path after the export, every byte of the bundle buffer is zero
\* when the buffer is released.
C2_BundleZeroedOnRelease ==
  \A q \in Queries :
    pfx_state[q] = "released" => \A i \in 1..Len(pfx_bytes[q]) : pfx_bytes[q][i] = 0

\* C3: a response whose status code is not "138" (or is missing) makes
\* parse_sefaz_response return the error with the code and the message, after the
\* status was read and nothing else: no payload location, base64 decoding,
\* decompression or extraction, whatever docZip blocks the response holds.
C3_NonSuccessStatus ==
  (/\ fn.op = "parse_sefaz_response" /\ fn.applied
   /\ StatusField(fn.in, <<"c", "S", "t", "a", "t">>) # <<"1", "3", "8">>) =>
    /\ fn.out.res.kind = "err"
    /\ fn.out.res.err = "SEFAZ: {} - {}"
    /\ fn.out.res.detail = <<StatusField(fn.in, <<"c", "S", "t", "a", "t">>), StatusField(fn.in, <<"x", "M", "o", "t", "i", "v", "o">>)>>
    /\ fn.out.ops = <<OpStatus>>

\* A response with status 137 and a docZip block has been refused
C3_Witness ==
  /\ fn.op = "parse_sefaz_response" /\ fn.applied
  /\ StatusField(fn.in, <<"c", "S", "t", "a", "t">>) = <<"1", "3", "7">>
  /\ Contains(fn.in, <<"<", "d", "o", "c", "Z", "i", "p">>)
  /\ fn.out.res.kind = "err"

\* C4: the stages run in the order identity, envelope, exchange, decode, extract,
\* render, persist; once a stage fails no later stage runs, the error is returned,
\* and the query has written no artifact file.
C4_StrictOrderAndAbort ==
  \A q \in Queries :
    /\ \A i, j \in 1..Len(trace[q]) :
         i < j => StageIndex(trace[q][i].stage) <= StageIndex(trace[q][j].stage)
    /\ \A i \in 1..Len(trace[q]) :
         ~trace[q][i].ok => (i = Len(trace[q]) /\ Returned(q) /\ IsErr(result[q]))
    /\ (Returned(q) /\ ~IsOk(result[q])) => FilesBy(q) = {}

\* C5 as stated: a query with a malformed key or a malformed fingerprint is rejected
\* before any I/O: it has not opened the certificate store, sent a request or
\* written a file.
C5_RejectedBeforeAnyIO ==
  \A q \in Queries :
    (/\ Returned(q)
     /\ ~WellFormedKey(args[q].access_key) \/ ~WellFormedThumbprint(args[q].thumbprint)) =>
      /\ IsErr(result[q])
      /\ trace[q] = <<>>
      /\ posts[q] = <<>>
      /\ FilesBy(q) = {}

\* C5 as amended: a malformed key is rejected with the validation error before any
\* I/O.  A malformed fingerprint is not checked for its form: with a valid key the
\* certificate store is opened and searched first, and when no certificate matches
\* the query fails without a request sent or a file written.
C5_KeyBeforeIO_FingerprintAfterLookup ==
  \A q \in Queries :
    /\ (Returned(q) /\ ~WellFormedKey(args[q].access_key)) =>
         /\ result[q].kind = "err" /\ result[q].err = ErrAccessKey
         /\ trace[q] = <<>>
         /\ posts[q] = <<>>
         /\ FilesBy(q) = {}
    /\ (/\ Returned(q)
        /\ WellFormedKey(args[q].access_key)
        /\ ~WellFormedThumbprint(args[q].thumbprint)
        /\ Selected(q) = None) =>
         /\ IsErr(result[q])
         /\ trace[q] # <<>>
         /\ trace[q][1].call \in {CallOpenSystem, CallOpenSystemNull}
         /\ \A i \in 1..Len(trace[q]) : trace[q][i].stage = "identity"
         /\ posts[q] = <<>>
         /\ FilesBy(q) = {}

\* A malformed fingerprint has been looked up in the opened store and not found
C5_Witness ==
  \E q \in Queries :
    /\ Returned(q)
    /\ WellFormedKey(args[q].access_key)
    /\ ~WellFormedThumbprint(args[q].thumbprint)
    /\ CallCloseSystem \in CallsOf(q)
    /\ result[q].kind = "err"
    /\ result[q].err = "Certificado nao encontrado com o thumbprint informado"

\* C6: a query issues at most one POST, to the fixed endpoint, and never again after
\* a transport failure, a non-2xx status or a protocol error; it issues exactly one
\* when the identity was acquired and the TLS client built.  (A POST is a request the
\* query hands to the HTTP client; what the client does below that call is not
\* counted.)
C6_AtMostOnePost ==
  \A q \in Queries :
    /\ Len(posts[q]) <= 1
    /\ \A i \in 1..Len(posts[q]) : posts[q][i].method = "POST" /\ posts[q][i].url = Endpoint
    /\ (Returned(q) /\ Succeeded(q, "ClientBuilder::build")) => Len(posts[q]) = 1
    /\ ~Succeeded(q, "ClientBuilder::build") => posts[q] = <<>>

\* A query has returned the transport failure with its one POST issued
C6_Witness ==
  \E q \in Queries :
    /\ Returned(q)
    /\ result[q].kind = "err"
    /\ result[q].err = "Falha na comunicacao com SEFAZ: {}"
    /\ Len(posts[q]) = 1

\* C7: a non-2xx status with any body gives an error, not a crash, that carries the
\* status and the first min(500, length) bytes of the body.
C7_NonSuccessIsError ==
  (fn.op = "CheckStatus" /\ fn.applied /\ (fn.in[1] < 200 \/ fn.in[1] > 299)) =>
    /\ fn.out.kind = "err"
    /\ fn.out.detail[1] = fn.in[1]
    /\ ByteLen(fn.out.detail[2]) =
         (IF ByteLen(fn.in[2]) < 500 THEN ByteLen(fn.in[2]) ELSE 500)
    /\ SubSeq(fn.in[2], 1, Len(fn.out.detail[2])) = fn.out.detail[2]

C9_NoOverwrite ==
  [][/\ \A n \in DOMAIN files :
          n \in DOMAIN files' /\ (files'[n] # files[n] => files'[n].by = files[n].by)
     /\ \A q1, q2 \in Queries :
          (/\ q1 # q2
           /\ Returned(q1) /\ IsOk(result[q1])
           /\ Returned(q2) /\ IsOk(result[q2])) => result[q1].val # result[q2].val]_vars

\* C10: when the certificate is found and exported and no 14-digit tax identifier
\* can be read from its subject, the query fails with the identity error and has
\* built no envelope and started no exchange.
C10_NoTaxIdentifier ==
  \A q \in Queries :
    (/\ Succeeded(q, "export_cert_pfx")
     /\ SelectedCnpj(q) = <<>>) =>
      /\ \A i \in 1..Len(trace[q]) : trace[q][i].stage = "identity"
      /\ posts[q] = <<>>
      /\ Returned(q) =>
           /\ result[q].kind = "err"
           /\ result[q].err = ErrCnpj

\* The certificate without a CNPJ was exported and the query has failed on it
C10_Witness ==
  \E q \in Queries :
    /\ Returned(q)
    /\ Succeeded(q, "export_cert_pfx")
    /\ args[q].thumbprint = ThumbPerson
    /\ result[q].kind = "err"
    /\ result[q].err = ErrCnpj


\* t with its letters in lower case
Canonical(t) == [i \in 1..Len(t) |-> to_ascii_lowercase(t[i])]

\* The certificates of the store whose SHA-1 fingerprint t is, case disregarded:
\* in the colon-separated form when colons is TRUE, in either form otherwise
CertsNamedBy(t, colons) ==
  {i \in 1..Len(system_store) :
     /\ system_store[i].sha1_ok
     /\ \/ Canonical(t) = ThumbForm(system_store[i], TRUE, TRUE)
        \/ ~colons /\ Canonical(t) = ThumbForm(system_store[i], TRUE, FALSE)}

\* The export of the call under check selected certificate i of the store
ExportSelected(i) ==
  /\ IsOk(fn.out.res)
  /\ fn.out.res.val = <<system_store[i].pfx, extract_cnpj_from_cert(system_store[i])>>

ErrNotFound == "Certificado nao encontrado com o thumbprint informado"

\* C11 as stated: the lookup disregards case and accepts the hex bytes with or
\* without colon separators: a fingerprint of a certificate in any of these forms
\* selects that certificate, and a fingerprint of no certificate gives the not-found
\* error.
C11_LookupAnyForm ==
  (fn.op = "export_cert_pfx" /\ fn.applied /\ fn.in[2] = "none") =>
    /\ \A i \in CertsNamedBy(fn.in[1], FALSE) : ExportSelected(i)
    /\ CertsNamedBy(fn.in[1], FALSE) = {} =>
         (fn.out.res.kind = "err" /\ fn.out.res.err = ErrNotFound)

\* C11 as amended: the lookup disregards case but needs the colon-separated form
\* "AB:CD:...": a certificate's fingerprint in that form, in upper, lower or mixed
\* case, selects the certificate; every other text, the same hex bytes without
\* colons included, gives the not-found error.
C11_LookupColonForm ==
  (fn.op = "export_cert_pfx" /\ fn.applied /\ fn.in[2] = "none") =>
    /\ \A i \in CertsNamedBy(fn.in[1], TRUE) : ExportSelected(i)
    /\ CertsNamedBy(fn.in[1], TRUE) = {} =>
         (fn.out.res.kind = "err" /\ fn.out.res.err = ErrNotFound)

\* A fingerprint in lower case with colons has selected its certificate
C11_Witness ==
  /\ fn.op = "export_cert_pfx" /\ fn.applied /\ fn.in[2] = "none"
  /\ fn.in[1] = <<"c", "d", ":", "3", "4">>
  /\ ExportSelected(2)

\* C12: the "not exportable" error is returned if and only if the export failed
\* because the private key is not exportable, and for no other failure of the
\* identity acquisition.
C12_NotExportableDistinct ==
  (fn.op = "export_cert_pfx" /\ fn.applied) =>
    ((fn.out.res.kind = "err" /\ fn.out.res.err = ErrNotExportable)
       <=> (fn.in[2] = FaultNotExportable /\ CertsNamedBy(fn.in[1], TRUE) # {}))


\* ---------------------------------------------------------------- C13

\* The envelopes query q has posted
EnvelopesOf(q) == {posts[q][i].body : i \in 1..Len(posts[q])}

\* Building the envelope: the step of q from the tax identifier check to the TLS
\* identity
BuildsEnvelope(q) == pc[q] = "check_cnpj" /\ pc'[q] = "tls_identity"

\* Queries with the same key whose certificates carry the same tax identifier have
\* posted the same envelopes
EnvelopesAgree ==
  \A q1, q2 \in Queries :
    (/\ posts[q1] # <<>> /\ posts[q2] # <<>>
     /\ q1 < q2
     /\ args[q1].access_key = args[q2].access_key
     /\ SelectedCnpj(q1) = SelectedCnpj(q2)) =>
      EnvelopesOf(q1) = EnvelopesOf(q2)

ItemsOf(n) ==
  [k \in 1..n |-> [Produto(k, <<>>) EXCEPT
                     !.description = <<"I", "T", "E", "M">> \o U32ToString(k),
                     !.total = U32ToString(k) \o <<".", "5", "0">>]]

\* C14: extraction succeeds whichever optional block is absent: the line-item list
\* has one entry per line-item block (none for a document without any), and the
\* issuer, the recipient, the totals and the protocol are at their empty defaults
\* exactly when their block is absent.
C14_OptionalBlocks ==
  \A shape \in DocShapes :
    (fn.op = "parse_nfe_xml" /\ fn.applied /\ fn.in = DocOf(shape)) =>
      /\ fn.out.kind = "ok"
      /\ fn.out.val.produtos = ItemsOf(shape.items)
      /\ (fn.out.val.emitente = DefaultParty) <=> ~shape.emit
      /\ shape.emit => fn.out.val.emitente.name = <<"A", "C", "M", "E">>
      /\ (fn.out.val.destinatario = DefaultParty) <=> ~shape.dest
      /\ shape.dest => fn.out.val.destinatario.name = <<"B", "O", "B">>
      /\ (fn.out.val.totais = DefaultTotais) <=> ~shape.total
      /\ shape.total => fn.out.val.totais.total_nfe = <<"4", ".", "0", "0">>
      /\ (fn.out.val.protocolo = <<>>) <=> ~shape.prot

\* A document with no line item and none of the four blocks has been extracted
C14_Witness ==
  /\ fn.op = "parse_nfe_xml" /\ fn.applied
  /\ fn.in = DocOf([emit |-> FALSE, dest |-> FALSE, total |-> FALSE, prot |-> FALSE,
                    items |-> 0])
  /\ fn.out.kind = "ok"
  /\ fn.out.val.produtos = <<>>


\* ---------------------------------------------------------------- C15

\* C15: a decoded text with no recognizable document content (no header field, party
\* block, line item, totals or protocol block) makes extraction return an error and
\* no model.
C15_UnrecognizableIsError ==
  (fn.op = "parse_nfe_xml" /\ fn.applied /\ fn.in \in DocUnrecognizable) =>
    fn.out.kind = "err"


\* ---------------------------------------------------------------- C16

\* The 44 digits of key in 11 groups of 4, one space between two groups
GroupsOf4(key) ==
  [i \in 1..(Len(key) + (Len(key) \div 4) - 1) |->
     IF i % 5 = 0 THEN " " ELSE key[i - (i \div 5)]]

\* The punctuated form of a tax identifier of 14 or 11 digits
Punctuated(id) ==
  IF Len(id) = 14
  THEN SubSeq(id, 1, 2) \o <<".">> \o SubSeq(id, 3, 5) \o <<".">> \o SubSeq(id, 6, 8)
       \o <<"/">> \o SubSeq(id, 9, 12) \o <<"-">> \o SubSeq(id, 13, 14)
  ELSE SubSeq(id, 1, 3) \o <<".">> \o SubSeq(id, 4, 6) \o <<".">> \o SubSeq(id, 7, 9)
       \o <<"-">> \o SubSeq(id, 10, 11)

IsTaxId(id) == Len(id) \in {11, 14} /\ AllDigits(id)

Occurrences(s, pat) == Cardinality({i \in 0..(Len(s) - Len(pat)) : MatchAt(s, pat, i)})

\* The description of the k-th line item of the documents of the model
ItemName(k) == <<"I", "T", "E", "M">> \o U32ToString(k)

\* C17: end to end, a response with the success status whose selected payload decodes
\* to a document yields a model with the issuer name of the issuer block and one line
\* item per line-item block, with its description and line total, and an HTML with
\* one table row per line item, in the order of the model, and "R$ " followed by the
\* grand total of the totals block.
C17_EndToEnd ==
  \A shape \in DocShapes, summary \in BOOLEAN :
    (fn.op = "parse_and_render" /\ fn.applied /\ fn.in = FullResponse(shape, summary)) =>
      /\ fn.out.nfe_data.kind = "ok"
      /\ shape.emit => fn.out.nfe_data.val.emitente.name = <<"A", "C", "M", "E">>
      /\ Len(fn.out.nfe_data.val.produtos) = shape.items
      /\ \A k \in 1..shape.items :
           /\ fn.out.nfe_data.val.produtos[k].description = ItemName(k)
           /\ fn.out.nfe_data.val.produtos[k].total = U32ToString(k) \o <<".", "5", "0">>
      /\ fn.out.html.kind = "ok"
      /\ Occurrences(fn.out.html.val, <<"<", "t", "r", ">">>) = shape.items
      /\ \A k \in 1..shape.items :
           Contains(fn.out.html.val, <<"<", "t", "d", ">">> \o ItemName(k) \o <<"<", "/", "t", "d", ">">>)
      /\ \A k \in 1..(shape.items - 1) :
           Find(fn.out.html.val, ItemName(k)) < Find(fn.out.html.val, ItemName(k + 1))
      /\ shape.total => Contains(fn.out.html.val, <<"R", "$", " ", "4", ".", "0", "0">>)

\* A response whose full document has an issuer, two line items and totals has been
\* decoded and rendered
C17_Witness ==
  /\ fn.op = "parse_and_render" /\ fn.applied
  /\ fn.out.nfe_data.kind = "ok"
  /\ fn.out.nfe_data.val.emitente.name = <<"A", "C", "M", "E">>
  /\ Len(fn.out.nfe_data.val.produtos) = 2
  /\ fn.out.html.kind = "ok"
  /\ Contains(fn.out.html.val, <<"R", "$", " ", "4", ".", "0", "0">>)


\* ---------------------------------------------------------------- C18

\* C18: a query never modifies the system store: whatever the queries have done,
\* successfully or not, the store holds the certificates it held before, with the
\* properties they had.
C18_StoreUnchanged == system_store = InitialStore

\* One query has exported a certificate and saved its file, another has exported a
\* certificate and failed
C18_Witness ==
  \E q1, q2 \in Queries :
    /\ Returned(q1) /\ IsOk(result[q1]) /\ Succeeded(q1, "export_cert_pfx")
    /\ Returned(q2) /\ IsErr(result[q2]) /\ Succeeded(q2, "export_cert_pfx")


\* ---------------------------------------------------------------- C19

\* The position of the block the rule selects among blocks with these schema
\* identifiers: the first under a schema that names procNFe, else the first
FirstFull(schemas) ==
  LET full == {i \in 1..Len(schemas) : Contains(schemas[i], <<"p", "r", "o", "c", "N", "F", "e">>)}
  IN  IF full = {} THEN 1 ELSE CHOOSE i \in full : \A j \in full : i <= j

\* The position of the block whose document the model m was extracted from
CarriedBy(m, i) ==
  /\ (m.emitente # DefaultParty) <=> i = 1
  /\ (m.destinatario # DefaultParty) <=> i = 2
  /\ (m.totais # DefaultTotais) <=> i = 3
  /\ (m.protocolo # <<>>) <=> i = 4

\* C19: under the success status, the payload decoded is that of the first block whose
\* schema identifier contains "procNFe" when there is one and that of the first block
\* of the response otherwise; a response without a payload block is a decode error.
C19_PayloadSelection ==
  \A schemas \in SchemaLists :
    (fn.op = "parse_sefaz_response" /\ fn.applied /\ fn.in = SelectionBody(schemas)) =>
      IF schemas = <<>>
      THEN /\ fn.out.res.kind = "err"
           /\ fn.out.res.err = "Nenhum documento encontrado na resposta da SEFAZ"
           /\ fn.out.ops = <<OpStatus, OpLocate>>
      ELSE /\ fn.out.res.kind = "ok"
           /\ CarriedBy(fn.out.res.val, FirstFull(schemas))

\* A response with a summary block, then two full-document blocks, has been decoded:
\* the second block was taken
C19_Witness ==
  /\ fn.op = "parse_sefaz_response" /\ fn.applied
  /\ fn.in = SelectionBody(<<SchemaSummary, SchemaFull, SchemaFull>>)
  /\ fn.out.res.kind = "ok"
  /\ fn.out.res.val.destinatario.name = <<"B", "O", "B">>
  /\ fn.out.res.val.emitente = DefaultParty


\* ---------------------------------------------------------------- C20

\* What the three decoders make of some bytes, in the order they are tried
Attempts(data) == <<data.gzip, data.deflate, data.zlib>>

\* The attempts that read the whole payload to a non-empty text
Usable(data) == {i \in 1..3 : Attempts(data)[i].ok /\ Attempts(data)[i].text # <<>>}

\* C20: decompression returns the text of the first of gzip, raw deflate and zlib, in
\* that order, that reads the whole payload to a non-empty text; a decoder that fails
\* or reads the empty text does not end the attempts; when none of the three reads a
\* text the result is the decode error, never a panic.
C20_CodecOrder ==
  (fn.op = "decompress_doc_zip" /\ fn.applied) =>
    IF Usable(fn.in) = {}
    THEN /\ fn.out.kind = "err"
         /\ fn.out.err = "Falha ao descomprimir documento (tentou gzip, deflate e zlib)"
    ELSE /\ fn.out.kind = "ok"
         /\ \E i \in Usable(fn.in) :
              /\ \A j \in Usable(fn.in) : i <= j
              /\ fn.out.val = Attempts(fn.in)[i].text

\* A payload on which gzip fails, raw deflate reads the empty text and zlib reads a
\* text has been decompressed to that text
C20_Witness ==
  /\ fn.op = "decompress_doc_zip" /\ fn.applied
  /\ ~fn.in.gzip.ok
  /\ fn.in.deflate.ok /\ fn.in.deflate.text = <<>>
  /\ fn.in.zlib.ok
  /\ fn.out.kind = "ok"
  /\ fn.out.val = <<"<", "z", "l", "i", "b", "/", ">">>


\* ---------------------------------------------------------------- C21

\* The digit runs of s of exactly 14 digits, by the position of their first digit: a
\* run is bounded on both sides by a character that is no digit or by an end of s
Runs14(s) ==
  {p \in 1..(Len(s) - 13) :
     /\ \A k \in p..(p + 13) : s[k] \in Digits
     /\ p > 1 => s[p - 1] \notin Digits
     /\ p + 14 <= Len(s) => s[p + 14] \notin Digits}

\* The rule as stated: the first run of 14 digits that immediately follows a colon, or
\* else the first run of 14 digits, or else nothing
StatedCnpj(s) ==
  LET after == {p \in Runs14(s) : p > 1 /\ s[p - 1] = ":"}
      first(ps) == CHOOSE p \in ps : \A r \in ps : p <= r
  IN  IF after # {} THEN SubSeq(s, first(after), first(after) + 13)
      ELSE IF Runs14(s) # {} THEN SubSeq(s, first(Runs14(s)), first(Runs14(s)) + 13)
      ELSE <<>>

\* C21: the tax identifier is looked for in the simple display name and in the
\* distinguished name only when the former has none; in one string it is the first
\* run of 14 digits that immediately follows a colon, or without such a run the first
\* standalone run of exactly 14 digits; without a match it is empty.
C21_ExtractionRule ==
  (fn.op = "extract_cnpj_from_cert" /\ fn.applied) =>
    fn.out = IF StatedCnpj(fn.in.simple) # <<>> THEN StatedCnpj(fn.in.simple)
             ELSE StatedCnpj(fn.in.rdn)


\* ---------------------------------------------------------------- C22

\* C22: an identifier of 14 characters is rendered with the punctuation of a CNPJ,
\* one of 11 characters with that of a CPF, and one of any other length unchanged.
C22_TaxIdFormatting ==
  (fn.op = "format_cnpj_cpf" /\ fn.applied) =>
    /\ fn.out.kind = "ok"
    /\ fn.out.val = IF Len(fn.in) \in {11, 14} THEN Punctuated(fn.in) ELSE fn.in


\* ---------------------------------------------------------------- C23

\* The first ten characters of t are four digits, two digits and two digits, split by
\* '-'
IsoDatePrefix(t) ==
  /\ Len(t) >= 10
  /\ \A i \in {1, 2, 3, 4, 6, 7, 9, 10} : t[i] \in Digits
  /\ t[5] = "-" /\ t[8] = "-"

\* C23: an issue date that begins with YYYY-MM-DD is rendered as DD/MM/YYYY, and every
\* other issue date is rendered unchanged.
C23_IssueDateFormatting ==
  (fn.op = "FormatDataEmissao" /\ fn.applied) =>
    /\ fn.out.kind = "ok"
    /\ fn.out.val = IF IsoDatePrefix(fn.in)
                    THEN SubSeq(fn.in, 9, 10) \o <<"/">> \o SubSeq(fn.in, 6, 7) \o <<"/">>
                         \o SubSeq(fn.in, 1, 4)
                    ELSE fn.in


\* ---------------------------------------------------------------- C24

\* C24: the line items of the model are in the order of the line-item blocks of the
\* document, and the k-th of them carries the sequence number k.
C24_ItemOrderAndNumbers ==
  (fn.op = "parse_products" /\ fn.applied) =>
    /\ \A k \in 1..Len(fn.out) : fn.out[k].num = k
    /\ \A j, k \in 1..Len(fn.out) :
         (j < k) => Find(fn.in, fn.out[j].description) < Find(fn.in, fn.out[k].description)


\* ---------------------------------------------------------------- C25

\* The offsets of xml at which an element named exactly tag opens: "<tag" followed
\* by '>' or by a blank
OpensExactly(xml, tag) ==
  {i \in 0..(Len(xml) - Len(tag) - 2) :
     /\ MatchAt(xml, <<"<">> \o tag, i)
     /\ xml[i + Len(tag) + 2] \in {">", " "}}

\* The content of the first element named exactly tag, up to its closing tag
ExactContent(xml, tag) ==
  IF OpensExactly(xml, tag) = {} THEN NoneStr
  ELSE LET open == CHOOSE i \in OpensExactly(xml, tag) :
                     \A j \in OpensExactly(xml, tag) : i <= j
           gt == FindAt(xml, <<">">>, open)
           close == FindAt(xml, <<"<", "/">> \o tag \o <<">">>, gt + 1)
       IN  IF close = None THEN NoneStr ELSE Some(Slice(xml, gt + 1, close))

\* C25: extraction of a tag returns the content of the first element whose name is
\* exactly that tag, up to its closing tag, never that of an earlier element whose
\* name begins with the tag, and no value when the tag is absent.
C25_ExactTag ==
  (fn.op = "extract_tag_content" /\ fn.applied) =>
    /\ fn.out.some = ExactContent(fn.in[1], fn.in[2]).some
    /\ fn.out.some => fn.out.val = ExactContent(fn.in[1], fn.in[2]).val


\* ---------------------------------------------------------------- C26

\* C26: downloads for two different document keys go to two different files of the
\* downloads folder, so that the second does not overwrite the file of the first.
C26_DistinctDestinations ==
  (/\ fn.op = "download_danfe" /\ fn.applied
   /\ fn.in[1].access_key # fn.in[2].access_key
   /\ fn.out.results[1].kind = "ok" /\ fn.out.results[2].kind = "ok") =>
    /\ fn.out.results[1].val # fn.out.results[2].val
    /\ fn.out.dir[fn.out.results[1].val] = fn.in[1].source.val


\* ---------------------------------------------------------------- C27

\* The name begins with "danfe_" and ends with ".html" or ".xml"
ArtifactName(n) ==
  /\ Len(n) >= 6 /\ SubSeq(n, 1, 6) = <<"d", "a", "n", "f", "e", "_">>
  /\ \/ Len(n) >= 5 /\ SubSeq(n, Len(n) - 4, Len(n)) = <<".", "h", "t", "m", "l">>
     \/ Len(n) >= 4 /\ SubSeq(n, Len(n) - 3, Len(n)) = <<".", "x", "m", "l">>

C28_ScanTerminates ==
  (fn.op = "extract_all_doc_zips" /\ fn.applied) =>
    /\ ~fn.out.panic
    /\ \A schemas \in SchemaLists :
         fn.in = SelectionBody(schemas) =>
           fn.out.val = [i \in 1..Len(schemas) |-> <<schemas[i], B64Doc(PosShape(i))>>]


\* ---------------------------------------------------------------- C29

\* How many times a call occurs among the store calls of one export
CallCount(ops, call) == Cardinality({i \in 1..Len(ops) : ops[i] = call})

\* A store is closed once, after it was opened and after the last call made
\* while it was open; a store whose opening failed is not closed.
ClosedOnce(ops, open, close, uses) ==
  /\ CallCount(ops, open) <= 1
  /\ CallCount(ops, close) = CallCount(ops, open)
  /\ \A i \in 1..Len(ops) :
       ops[i] = close =>
         /\ \E j \in 1..(i - 1) : ops[j] = open
         /\ \A j \in (i + 1)..Len(ops) : ops[j] \notin uses

\* C29: every store opened by export_cert_pfx, the system store and the
\* in-memory store, is closed exactly once before the function returns, on the
\* success path and on every error path: certificate not found, memory store
\* not created, certificate not added, first and second export call failing.
C29_StoresClosedOnce ==
  (fn.op = "export_cert_pfx" /\ fn.applied) =>
    /\ ClosedOnce(fn.out.ops, CallOpenSystem, CallCloseSystem,
                  {CallOpenMemory, CallOpenMemoryNull, CallExport, CallCloseMemory})
    /\ ClosedOnce(fn.out.ops, CallOpenMemory, CallCloseMemory, {CallExport})
    /\ (fn.in[2] # "CertOpenSystemStoreW") => CallCount(fn.out.ops, CallOpenSystem) = 1
    /\ (find_cert_by_thumbprint_raw(system_store, fn.in[1]) # None
        /\ fn.in[2] \notin {"CertOpenSystemStoreW", "CertOpenStore"})
         => CallCount(fn.out.ops, CallOpenMemory) = 1

\* An export whose second export call failed returned with both stores closed
C29_Witness ==
  /\ fn.op = "export_cert_pfx" /\ fn.applied
  /\ fn.in[2] = "PFXExportCertStoreEx#2"
  /\ IsErr(fn.out.res)
  /\ CallCount(fn.out.ops, CallExport) = 2
  /\ CallCount(fn.out.ops, CallCloseMemory) = 1
  /\ CallCount(fn.out.ops, CallCloseSystem) = 1


\* ---------------------------------------------------------------- C30

\* C30: on a form page the portal script clicks the submit button at most once
\* in a page load, and only after a poll has seen a captcha response; once the
\* click is scheduled the polling interval is cleared; and the key is written
\* into the field at most once, however many of the fill attempts run.
C30_PortalScript ==
  (fn.op = "portal_init_script" /\ fn.out.page = "form") =>
    /\ fn.out.clicks <= 1
    /\ (fn.out.clicks > 0 \/ fn.out.click # {}) => fn.out.observed
    /\ fn.out.SUBMITTED => fn.out.iv = {}
    /\ fn.out.writes <= 1

\* The key was written and the button clicked, and every fill attempt has run
C30_Witness ==
  /\ fn.op = "portal_init_script" /\ fn.out.page = "form"
  /\ fn.out.writes = 1 /\ fn.out.clicks = 1
  /\ fn.out.fills = {} /\ fn.out.iv = {} /\ fn.out.click = {}
  /\ fn.out.now = 3000

====
